---- MODULE Spec2Model ----
(***************************************************************************)
(* Model of the discovery -> scrape -> extract pipeline of                 *)
(* FinancialScrapper (app/workers/tasks.py, app/services/discovery.py,     *)
(* app/services/scraping.py).  One pipeline run is one asyncio event loop: *)
(* the code between two awaits is one atomic step.  Several runs (one per  *)
(* celery task, each with its own session) share the database.             *)
(***************************************************************************)
EXTENDS Integers, Sequences, FiniteSets, TLC

(***************************************************************************)
(* Bounds of the model.                                                    *)
(***************************************************************************)
\* run slots: the tasks that may be alive at the same time
Runs == {1, 2}
\* how many queries of one run may raise
MaxFail == 1
\* how many tasks the queue hands out
MaxTasks == 3
\* the queries that may answer with a result page or raise (one that enters
\* the limiter at once, one that has to wait for a permit); the others
\* answer with an empty page
ProbeQueries == {1, 5}
\* the longest result list handed to categorize_search_results on its own
MaxResults == 2
\* the longest document handed to extract_relevant_chunks on its own
MaxTags == 3
\* the longest raw value handed to normalize_aum_value on its own
MaxLen == 3

(***************************************************************************)
(* Texts.  A text on which the code does substring tests is looked up as   *)
(* its sequence of characters; an accented character is one element.       *)
(***************************************************************************)
Chars(s) ==
    CASE s = "linkedin.com/acme" -> <<"l", "i", "n", "k", "e", "d", "i", "n", ".", "c", "o", "m", "/", "a", "c", "m", "e">>
      [] s = "acme.com/ir" -> <<"a", "c", "m", "e", ".", "c", "o", "m", "/", "i", "r">>
      [] s = "g1.com/acme" -> <<"g", "1", ".", "c", "o", "m", "/", "a", "c", "m", "e">>
      [] s = "acme.com" -> <<"a", "c", "m", "e", ".", "c", "o", "m">>
      [] s = "facebook.com/acme" -> <<"f", "a", "c", "e", "b", "o", "o", "k", ".", "c", "o", "m", "/", "a", "c", "m", "e">>
      [] s = "other.com" -> <<"o", "t", "h", "e", "r", ".", "c", "o", "m">>
      [] s = "Acme | LinkedIn" -> <<"A", "c", "m", "e", " ", "|", " ", "L", "i", "n", "k", "e", "d", "I", "n">>
      [] s = "Acme report" -> <<"A", "c", "m", "e", " ", "r", "e", "p", "o", "r", "t">>
      [] s = "acme news" -> <<"a", "c", "m", "e", " ", "n", "e", "w", "s">>
      [] s = "Acme" -> <<"A", "c", "m", "e">>
      [] s = "Other" -> <<"O", "t", "h", "e", "r">>
      [] s = "Ac Me" -> <<"A", "c", " ", "M", "e">>
      [] s = "instagram.com/acme" -> <<"i", "n", "s", "t", "a", "g", "r", "a", "m", ".", "c", "o", "m", "/", "a", "c", "m", "e">>
      [] s = "instagram.com/stories/acme" -> <<"i", "n", "s", "t", "a", "g", "r", "a", "m", ".", "c", "o", "m", "/", "s", "t", "o", "r", "i", "e", "s", "/", "a", "c", "m", "e">>
      [] s = "instagram.com/reel/acme" -> <<"i", "n", "s", "t", "a", "g", "r", "a", "m", ".", "c", "o", "m", "/", "r", "e", "e", "l", "/", "a", "c", "m", "e">>
      [] s = "twitter.com/acme" -> <<"t", "w", "i", "t", "t", "e", "r", ".", "c", "o", "m", "/", "a", "c", "m", "e">>
      [] s = "x.com/acme" -> <<"x", ".", "c", "o", "m", "/", "a", "c", "m", "e">>
      [] s = "instagram.com/linkedin.com" -> <<"i", "n", "s", "t", "a", "g", "r", "a", "m", ".", "c", "o", "m", "/", "l", "i", "n", "k", "e", "d", "i", "n", ".", "c", "o", "m">>
      [] s = "facebook.com/x.com" -> <<"f", "a", "c", "e", "b", "o", "o", "k", ".", "c", "o", "m", "/", "x", ".", "c", "o", "m">>
      [] s = "LinkedIn.com/acme" -> <<"L", "i", "n", "k", "e", "d", "I", "n", ".", "c", "o", "m", "/", "a", "c", "m", "e">>
      [] s = "netflix.com/acme" -> <<"n", "e", "t", "f", "l", "i", "x", ".", "c", "o", "m", "/", "a", "c", "m", "e">>
      [] s = "ACME REPORT" -> <<"A", "C", "M", "E", " ", "R", "E", "P", "O", "R", "T">>
      [] s = "Acme report news" -> <<"A", "c", "m", "e", " ", "r", "e", "p", "o", "r", "t", " ", "n", "e", "w", "s">>
      [] s = "AUM: 1 bilhão" -> <<"A", "U", "M", ":", " ", "1", " ", "b", "i", "l", "h", "a_tilde", "o">>
      [] s = "AUM: 2 bilhões" -> <<"A", "U", "M", ":", " ", "2", " ", "b", "i", "l", "h", "o_tilde", "e", "s">>
      [] s = "Total de R$ 2,3 bi" -> <<"T", "o", "t", "a", "l", " ", "d", "e", " ", "R", "$", " ", "2", ",", "3", " ", "b", "i">>
      [] s = "Some random text here." -> <<"S", "o", "m", "e", " ", "r", "a", "n", "d", "o", "m", " ", "t", "e", "x", "t", " ", "h", "e", "r", "e", ".">>
      [] s = "R$ 5 bi" -> <<"R", "$", " ", "5", " ", "b", "i">>
      [] s = "  Patrimônio sob gestão \n\n  US$ 1,5 mi \n" -> <<" ", " ", "P", "a", "t", "r", "i", "m", "o_circ", "n", "i", "o", " ", "s", "o", "b", " ", "g", "e", "s", "t", "a_tilde", "o", " ", "\n", "\n", " ", " ", "U", "S", "$", " ", "1", ",", "5", " ", "m", "i", " ", "\n">>
      [] s = "Assets Under Management" -> <<"A", "s", "s", "e", "t", "s", " ", "U", "n", "d", "e", "r", " ", "M", "a", "n", "a", "g", "e", "m", "e", "n", "t">>
      [] s = "R$ 2,3" -> <<"R", "$", " ", "2", ",", "3">>
      [] s = "AUM R$ 2,3 bi" -> <<"A", "U", "M", " ", "R", "$", " ", "2", ",", "3", " ", "b", "i">>
      [] s = "feed" -> <<"f", "e", "e", "d">>
      [] s = "Patrimônio sob gestão" -> <<"P", "a", "t", "r", "i", "m", "o_circ", "n", "i", "o", " ", "s", "o", "b", " ", "g", "e", "s", "t", "a_tilde", "o">>
      [] s = "US$ 1,5 mi" -> <<"U", "S", "$", " ", "1", ",", "5", " ", "m", "i">>
      [] s = " NAO_DISPONIVEL\n" -> <<" ", "N", "A", "O", "_", "D", "I", "S", "P", "O", "N", "I", "V", "E", "L", "\n">>
      [] s = "R$ 2,3 bi\n\nFonte: acme.com/ir" -> <<"R", "$", " ", "2", ",", "3", " ", "b", "i", "\n", "\n", "F", "o", "n", "t", "e", ":", " ", "a", "c", "m", "e", ".", "c", "o", "m", "/", "i", "r">>
      [] s = "Invalid Text\n\nFonte: acme.com/ir" -> <<"I", "n", "v", "a", "l", "i", "d", " ", "T", "e", "x", "t", "\n", "\n", "F", "o", "n", "t", "e", ":", " ", "a", "c", "m", "e", ".", "c", "o", "m", "/", "i", "r">>
      [] s = "0\n\nFonte: acme.com/ir" -> <<"0", "\n", "\n", "F", "o", "n", "t", "e", ":", " ", "a", "c", "m", "e", ".", "c", "o", "m", "/", "i", "r">>
      [] s = "NAO_DISPONIVEL" -> <<"N", "A", "O", "_", "D", "I", "S", "P", "O", "N", "I", "V", "E", "L">>
      [] s = "Fonte: " -> <<"F", "o", "n", "t", "e", ":", " ">>
      [] s = "R$ 500 milhões\n\nFonte: https://fake.url/report" -> <<"R", "$", " ", "5", "0", "0", " ", "m", "i", "l", "h", "o_tilde", "e", "s", "\n", "\n", "F", "o", "n", "t", "e", ":", " ", "h", "t", "t", "p", "s", ":", "/", "/", "f", "a", "k", "e", ".", "u", "r", "l", "/", "r", "e", "p", "o", "r", "t">>
      [] s = "R$ 2,3 bi\nNao_Disponivel\nFonte: acme.com/ir" -> <<"R", "$", " ", "2", ",", "3", " ", "b", "i", "\n", "N", "a", "o", "_", "D", "i", "s", "p", "o", "n", "i", "v", "e", "l", "\n", "F", "o", "n", "t", "e", ":", " ", "a", "c", "m", "e", ".", "c", "o", "m", "/", "i", "r">>
      [] s = "R$ 2,3 bi\n\nFonte: example.com/ir" -> <<"R", "$", " ", "2", ",", "3", " ", "b", "i", "\n", "\n", "F", "o", "n", "t", "e", ":", " ", "e", "x", "a", "m", "p", "l", "e", ".", "c", "o", "m", "/", "i", "r">>
      [] s = "25b\n\nFonte: acme.com/ir" -> <<"2", "5", "b", "\n", "\n", "F", "o", "n", "t", "e", ":", " ", "a", "c", "m", "e", ".", "c", "o", "m", "/", "i", "r">>
      [] s = "€ 123.456,78\n\nFonte: acme.com/ir" -> <<"euro", " ", "1", "2", "3", ".", "4", "5", "6", ",", "7", "8", "\n", "\n", "F", "o", "n", "t", "e", ":", " ", "a", "c", "m", "e", ".", "c", "o", "m", "/", "i", "r">>
      [] s = "R$ 500 milhões" -> <<"R", "$", " ", "5", "0", "0", " ", "m", "i", "l", "h", "o_tilde", "e", "s">>
      [] s = "https://fake.url/report" -> <<"h", "t", "t", "p", "s", ":", "/", "/", "f", "a", "k", "e", ".", "u", "r", "l", "/", "r", "e", "p", "o", "r", "t">>
      [] s = "example.com/ir" -> <<"e", "x", "a", "m", "p", "l", "e", ".", "c", "o", "m", "/", "i", "r">>
      [] s = "xample.com/ir" -> <<"x", "a", "m", "p", "l", "e", ".", "c", "o", "m", "/", "i", "r">>
      [] s = "R$" -> <<"R", "$">>
      [] s = "US$" -> <<"U", "S", "$">>
      [] s = "€" -> <<"euro">>
      [] s = "$" -> <<"$">>
      [] s = "USD" -> <<"U", "S", "D">>
      [] s = "" -> <<>>
      [] s = "R$ 2,3 bi" -> <<"R", "$", " ", "2", ",", "3", " ", "b", "i">>
      [] s = "$500 million" -> <<"$", "5", "0", "0", " ", "m", "i", "l", "l", "i", "o", "n">>
      [] s = "1.5 trilhão" -> <<"1", ".", "5", " ", "t", "r", "i", "l", "h", "a_tilde", "o">>
      [] s = "US$ 100,5 mil" -> <<"U", "S", "$", " ", "1", "0", "0", ",", "5", " ", "m", "i", "l">>
      [] s = "€ 123.456,78" -> <<"euro", " ", "1", "2", "3", ".", "4", "5", "6", ",", "7", "8">>
      [] s = "25b" -> <<"2", "5", "b">>
      [] s = "Invalid Text" -> <<"I", "n", "v", "a", "l", "i", "d", " ", "T", "e", "x", "t">>

\* str.lower(), on the characters the texts use
LowerChar(c) ==
    CASE c = "A" -> "a" [] c = "B" -> "b" [] c = "C" -> "c" [] c = "D" -> "d" [] c = "E" -> "e" [] c = "F" -> "f"
      [] c = "G" -> "g" [] c = "H" -> "h" [] c = "I" -> "i" [] c = "J" -> "j" [] c = "K" -> "k" [] c = "L" -> "l"
      [] c = "M" -> "m" [] c = "N" -> "n" [] c = "O" -> "o" [] c = "P" -> "p" [] c = "Q" -> "q" [] c = "R" -> "r"
      [] c = "S" -> "s" [] c = "T" -> "t" [] c = "U" -> "u" [] c = "V" -> "v" [] c = "W" -> "w" [] c = "X" -> "x"
      [] c = "Y" -> "y" [] c = "Z" -> "z"
      [] OTHER -> c

Lower(cs) == [i \in 1..Len(cs) |-> LowerChar(cs[i])]

\* str.upper(), on the characters the texts use
UpperChar(c) ==
    CASE c = "a" -> "A" [] c = "b" -> "B" [] c = "c" -> "C" [] c = "d" -> "D" [] c = "e" -> "E" [] c = "f" -> "F"
      [] c = "g" -> "G" [] c = "h" -> "H" [] c = "i" -> "I" [] c = "j" -> "J" [] c = "k" -> "K" [] c = "l" -> "L"
      [] c = "m" -> "M" [] c = "n" -> "N" [] c = "o" -> "O" [] c = "p" -> "P" [] c = "q" -> "Q" [] c = "r" -> "R"
      [] c = "s" -> "S" [] c = "t" -> "T" [] c = "u" -> "U" [] c = "v" -> "V" [] c = "w" -> "W" [] c = "x" -> "X"
      [] c = "y" -> "Y" [] c = "z" -> "Z"
      [] OTHER -> c

\* (a comparison that leaves the letters in the case they have)
Upper_AsIs(cs) == cs

Upper(cs) == [i \in 1..Len(cs) |-> UpperChar(cs[i])]

\* str.replace(" ", "")
RECURSIVE NoSpace(_)
NoSpace(cs) ==
    IF cs = <<>> THEN <<>>
    ELSE IF Head(cs) = " " THEN NoSpace(Tail(cs))
    ELSE <<Head(cs)>> \o NoSpace(Tail(cs))

\* the Python test `sub in s`
Contains(s, sub) ==
    \E i \in 0..(Len(s) - Len(sub)) :
        \A j \in 1..Len(sub) : s[i + j] = sub[j]

kw_linkedin == <<"l", "i", "n", "k", "e", "d", "i", "n", ".", "c", "o", "m">>
kw_instagram == <<"i", "n", "s", "t", "a", "g", "r", "a", "m", ".", "c", "o", "m">>
kw_twitter == <<"t", "w", "i", "t", "t", "e", "r", ".", "c", "o", "m">>
kw_x == <<"x", ".", "c", "o", "m">>
kw_facebook == <<"f", "a", "c", "e", "b", "o", "o", "k", ".", "c", "o", "m">>
kw_stories == <<"s", "t", "o", "r", "i", "e", "s">>
kw_reel == <<"r", "e", "e", "l">>

REPORTS_KW ==
    { <<"r", "e", "l", "a", "t", "o_acute", "r", "i", "o">>,
      <<"r", "e", "l", "a", "t", "o", "r", "i", "o">>,
      <<"r", "e", "p", "o", "r", "t">>,
      <<"b", "a", "l", "a", "n", "c_cedilla", "o">>,
      <<"b", "a", "l", "a", "n", "c", "o">>,
      <<"d", "e", "m", "o", "n", "s", "t", "r", "a", "t", "i", "v", "o">>,
      <<"i", "n", "v", "e", "s", "t", "o", "r", " ", "r", "e", "l", "a", "t", "i", "o", "n", "s">> }

NEWS_KW ==
    { <<"n", "o", "t", "i_acute", "c", "i", "a">>,
      <<"n", "e", "w", "s">>,
      <<"j", "o", "r", "n", "a", "l">>,
      <<"m", "a", "g", "a", "z", "i", "n", "e">>,
      <<"g", "1">>,
      <<"c", "n", "n">>,
      <<"b", "l", "o", "o", "m", "b", "e", "r", "g">> }

\* re.search of a pattern that is an alternation of literals
Search(kws, cs) == \E k \in kws : Contains(cs, k)

(***************************************************************************)
(* The companies table (rows created by the upload endpoint) and the ids   *)
(* a task may be handed; NoCompany is an id without a row.                 *)
(***************************************************************************)
companies == (1 :> "Acme") @@ (2 :> "Ac Me")
NoCompany == Cardinality(DOMAIN companies) + 1
CompanyIds == DOMAIN companies \cup {NoCompany}

(***************************************************************************)
(* Categories, in the order of the discovered_urls dict literal, and the   *)
(* eight search queries.                                                   *)
(***************************************************************************)
Categories ==
    <<"corporate", "linkedin", "instagram", "twitter", "facebook", "news", "reports">>

CategorySet == {Categories[i] : i \in 1..Len(Categories)}

NumQueries == 8
Queries == 1..NumQueries

EmptyMapping == [c \in CategorySet |-> {}]

(***************************************************************************)
(* The search provider.  An answer is "raise" (a browser operation raises  *)
(* inside duckduckgo_search), "none" (tab.query finds no result element)   *)
(* or the name of a result page: a list of anchors, each with its title    *)
(* and the value of the uddg parameter of its href ("" when absent).       *)
(***************************************************************************)
Anchor(t, u) == [title |-> t, uddg |-> u]

PageElements(p) ==
    CASE p = "pageA" ->
            << Anchor("Acme | LinkedIn", "linkedin.com/acme"),
               Anchor("Acme report", "acme.com/ir"),
               Anchor("acme news", "g1.com/acme"),
               Anchor("Acme", "acme.com"),
               Anchor("Other", "facebook.com/acme"),
               Anchor("Other", "other.com"),
               Anchor("Acme", "") >>
      [] p = "pageB" ->
            << Anchor("Acme report", "acme.com/ir"),
               Anchor("acme news", "acme.com/ir") >>

Pages == {"pageA", "pageB"}
Answers == {"raise", "none"} \cup Pages

\* the answers of one run: f maps the probed queries to their answers
ProviderOf(f) == [q \in Queries |-> IF q \in DOMAIN f THEN f[q] ELSE "none"]

Providers ==
    { ProviderOf(f) : f \in
        { g \in [ProbeQueries -> Answers] :
            Cardinality({q \in ProbeQueries : g[q] = "raise"}) <= MaxFail } }

(***************************************************************************)
(* duckduckgo_search: the anchors that carry a uddg target and name the    *)
(* company in the title or (without spaces) in the target.                 *)
(***************************************************************************)
Relevant(el, company_name) ==
    /\ el.uddg # ""
    /\ \/ Contains(Lower(Chars(el.title)), Lower(Chars(company_name)))
       \/ Contains(Lower(Chars(el.uddg)), NoSpace(Lower(Chars(company_name))))

RECURSIVE FilterRelevant(_, _)
FilterRelevant(els, company_name) ==
    IF els = <<>> THEN <<>>
    ELSE IF Relevant(Head(els), company_name)
         THEN <<[title |-> Head(els).title, url |-> Head(els).uddg]>>
                  \o FilterRelevant(Tail(els), company_name)
         ELSE FilterRelevant(Tail(els), company_name)

duckduckgo_search(answer, company_name) ==
    IF answer = "none" THEN <<>>
    ELSE FilterRelevant(PageElements(answer), company_name)

(***************************************************************************)
(* categorize_search_results: the rule chain, first match wins.            *)
(***************************************************************************)
\* (a chain that tests the title patterns before the domains)
CategoryOf_TitleFirst(result) ==
    LET url == Chars(result.url)
        title == Lower(Chars(result.title))
    IN  IF Search(REPORTS_KW, title) THEN "reports"
        ELSE IF Search(NEWS_KW, title) THEN "news"
        ELSE IF Contains(url, kw_linkedin) THEN "linkedin"
        ELSE IF Contains(url, kw_instagram)
             THEN IF ~Contains(url, kw_stories) /\ ~Contains(url, kw_reel)
                  THEN "instagram" ELSE "dropped"
        ELSE IF Contains(url, kw_twitter) \/ Contains(url, kw_x) THEN "twitter"
        ELSE IF Contains(url, kw_facebook) THEN "facebook"
        ELSE "corporate"

CategoryOf(result) ==
    LET url == Chars(result.url)
        title == Lower(Chars(result.title))
    IN  IF Contains(url, kw_linkedin) THEN "linkedin"
        ELSE IF Contains(url, kw_instagram)
             THEN IF ~Contains(url, kw_stories) /\ ~Contains(url, kw_reel)
                  THEN "instagram" ELSE "dropped"
        ELSE IF Contains(url, kw_twitter) \/ Contains(url, kw_x) THEN "twitter"
        ELSE IF Contains(url, kw_facebook) THEN "facebook"
        ELSE IF Search(REPORTS_KW, title) THEN "reports"
        ELSE IF Search(NEWS_KW, title) THEN "news"
        ELSE "corporate"

RECURSIVE categorize_search_results(_, _)
categorize_search_results(results, categories) ==
    IF results = <<>> THEN categories
    ELSE LET c == CategoryOf(Head(results))
             next == IF c = "dropped" THEN categories
                     ELSE [categories EXCEPT ![c] = @ \cup {Head(results).url}]
         IN  categorize_search_results(Tail(results), next)

(***************************************************************************)
(* Text functions of Python on sequences of characters.                    *)
(***************************************************************************)
Digits == {"0", "1", "2", "3", "4", "5", "6", "7", "8", "9"}
Letters ==
    {"a", "b", "c", "d", "e", "f", "g", "h", "i", "j", "k", "l", "m", "n", "o", "p", "q",
     "r", "s", "t", "u", "v", "w", "x", "y", "z",
     "A", "B", "C", "D", "E", "F", "G", "H", "I", "J", "K", "L", "M", "N", "O", "P", "Q",
     "R", "S", "T", "U", "V", "W", "X", "Y", "Z",
     "a_tilde", "o_tilde", "o_circ", "o_acute", "c_cedilla", "i_acute"}
Whitespace == {" ", "\n", "\t"}

\* str.isdigit(), the regex classes \w and \s on one character
IsDigit(c) == c \in Digits
IsWord(c) == c \in Digits \cup Letters \cup {"_"}
IsSpace(c) == c \in Whitespace

\* str.strip()
RECURSIVE LStrip(_)
LStrip(cs) == IF cs # <<>> /\ IsSpace(Head(cs)) THEN LStrip(Tail(cs)) ELSE cs

RECURSIVE RStrip(_)
RStrip(cs) ==
    IF cs # <<>> /\ IsSpace(cs[Len(cs)]) THEN RStrip(SubSeq(cs, 1, Len(cs) - 1)) ELSE cs

Strip(cs) == RStrip(LStrip(cs))

\* str.splitlines(): the lines between line breaks; a final line break
\* opens no further line
RECURSIVE SplitLines(_)
SplitLines(cs) ==
    IF cs = <<>> THEN <<>>
    ELSE LET breaks == {i \in 1..Len(cs) : cs[i] = "\n"}
         IN  IF breaks = {} THEN <<cs>>
             ELSE LET b == CHOOSE i \in breaks : \A j \in breaks : i <= j
                  IN  <<SubSeq(cs, 1, b - 1)>> \o SplitLines(SubSeq(cs, b + 1, Len(cs)))

\* "\n".join(parts)
RECURSIVE JoinLines(_)
JoinLines(parts) ==
    IF parts = <<>> THEN <<>>
    ELSE IF Len(parts) = 1 THEN parts[1]
    ELSE parts[1] \o <<"\n">> \o JoinLines(Tail(parts))

(***************************************************************************)
(* utils/extraction.py.  A document is what BeautifulSoup parses out of    *)
(* the markup: its tags in document order, each with its name, the text    *)
(* get_text() gives and the number of tokens encoding.encode gives for     *)
(* the sanitized text.                                                     *)
(***************************************************************************)
Tag(name, text, tokens) == [name |-> name, text |-> text, tokens |-> tokens]

\* BeautifulSoup(html_content, "lxml") on the markups the web serves
Document(markup) ==
    CASE markup = "<p>AUM R$ 2,3 bi</p>" -> <<Tag("p", "AUM R$ 2,3 bi", 8)>>
      [] markup = "<p>feed</p>" -> <<Tag("p", "feed", 1)>>
      [] markup = "<p>never read</p>" -> <<Tag("p", "Some random text here.", 5)>>
      [] markup = "" -> <<>>

AUM_KEYWORDS ==
    { <<"a", "u", "m">>,
      <<"a", "s", "s", "e", "t", "s", " ", "u", "n", "d", "e", "r", " ",
        "m", "a", "n", "a", "g", "e", "m", "e", "n", "t">>,
      <<"p", "a", "t", "r", "i", "m", "o_circ", "n", "i", "o", " ", "s", "o", "b", " ",
        "g", "e", "s", "t", "a_tilde", "o">>,
      <<"s", "o", "b", " ", "g", "e", "s", "t", "a_tilde", "o">>,
      <<"a", "t", "i", "v", "o", "s", " ", "s", "o", "b", " ", "g", "e", "s", "t", "a_tilde", "o">>,
      <<"r", "e", "c", "u", "r", "s", "o", "s", " ", "s", "o", "b", " ",
        "g", "e", "s", "t", "a_tilde", "o">> }

At(cs, i) == IF i \in 1..Len(cs) THEN cs[i] ELSE "end"

\* (a pattern that asks for no decimal separator: (R\$|US\$) ?\d+ ?\w+)
MONETARY_VALUE_REGEX_NoDecimal(cs) ==
    \E p \in 1..Len(cs) :
        \E sym \in {<<"r", "$">>, <<"u", "s", "$">>} :
            /\ p + Len(sym) - 1 <= Len(cs)
            /\ Lower(SubSeq(cs, p, p + Len(sym) - 1)) = sym
            /\ \E sp \in {0, 1} :
                /\ sp = 1 => At(cs, p + Len(sym)) = " "
                /\ IsDigit(At(cs, p + Len(sym) + sp))

\* MONETARY_VALUE_REGEX.search: (R\$|US\$) ?\d+[,.]\d+ ?\w+ , letters in either case
MONETARY_VALUE_REGEX(cs) ==
    \E p \in 1..Len(cs) :
        \E sym \in {<<"r", "$">>, <<"u", "s", "$">>} :
            /\ p + Len(sym) - 1 <= Len(cs)
            /\ Lower(SubSeq(cs, p, p + Len(sym) - 1)) = sym
            /\ \E sp \in {0, 1} :
                /\ sp = 1 => At(cs, p + Len(sym)) = " "
                /\ \E sep \in (p + Len(sym) + sp + 1)..Len(cs) :
                    /\ \A i \in (p + Len(sym) + sp)..(sep - 1) : IsDigit(cs[i])
                    /\ cs[sep] \in {",", "."}
                    /\ \E e2 \in (sep + 1)..Len(cs) :
                        /\ \A i \in (sep + 1)..e2 : IsDigit(cs[i])
                        /\ \/ IsWord(At(cs, e2 + 1))
                           \/ At(cs, e2 + 1) = " " /\ IsWord(At(cs, e2 + 2))

MAX_TOKENS == 1350

\* sanitize_paragraph: the stripped non-empty lines, joined by line breaks
RECURSIVE StrippedLines(_)
StrippedLines(lines) ==
    IF lines = <<>> THEN <<>>
    ELSE LET line == Strip(Head(lines))
         IN  (IF line # <<>> THEN <<line>> ELSE <<>>) \o StrippedLines(Tail(lines))

sanitize_paragraph(p) == JoinLines(StrippedLines(SplitLines(p)))

\* soup.find_all(["p", "span"])
find_all(doc) == SelectSeq(doc, LAMBDA tag : tag.name \in {"p", "span"})

\* (a loop that skips a paragraph over the budget and goes on)
RECURSIVE ChunkLoop_SkipAndContinue(_, _, _)
ChunkLoop_SkipAndContinue(tags, i, acc) ==
    IF i > Len(tags) THEN acc[1]
    ELSE LET paragraph == Chars(tags[i].text)
             p_lower == Lower(paragraph)
             has_keyword == Search(AUM_KEYWORDS, p_lower)
             has_monetary_value == MONETARY_VALUE_REGEX(p_lower)
         IN  IF (has_keyword \/ has_monetary_value) /\ acc[2] + tags[i].tokens <= MAX_TOKENS
             THEN ChunkLoop_SkipAndContinue(tags, i + 1,
                      <<Append(acc[1], sanitize_paragraph(paragraph)),
                        acc[2] + tags[i].tokens>>)
             ELSE ChunkLoop_SkipAndContinue(tags, i + 1, acc)

\* the loop of extract_relevant_chunks over the paragraphs from index i on;
\* acc is <<relevant_chunks, total_tokens>>
RECURSIVE ChunkLoop(_, _, _)
ChunkLoop(tags, i, acc) ==
    IF i > Len(tags) THEN acc[1]
    ELSE LET paragraph == Chars(tags[i].text)
             p_lower == Lower(paragraph)
             has_keyword == Search(AUM_KEYWORDS, p_lower)
             has_monetary_value == MONETARY_VALUE_REGEX(p_lower)
         IN  IF has_keyword \/ has_monetary_value
             THEN IF acc[2] + tags[i].tokens <= MAX_TOKENS
                  THEN ChunkLoop(tags, i + 1,
                           <<Append(acc[1], sanitize_paragraph(paragraph)),
                             acc[2] + tags[i].tokens>>)
                  ELSE acc[1]
             ELSE ChunkLoop(tags, i + 1, acc)

\* extract_relevant_chunks(html_content); html_content is empty exactly when
\* the document is <<>> and has no markup at all
extract_relevant_chunks(doc) ==
    IF doc = <<>> THEN <<>>
    ELSE JoinLines(ChunkLoop(find_all(doc), 1, <<<<>>, 0>>))

(***************************************************************************)
(* utils/normalization.py.  A float is kept as the decimal number it       *)
(* stands for, m * 10^e with m not divisible by 10 (zero is 0 * 10^0).     *)
(***************************************************************************)
RECURSIVE Decimal(_, _)
Decimal(m, e) ==
    IF m = 0 THEN [m |-> 0, e |-> 0]
    ELSE IF m % 10 = 0 THEN Decimal(m \div 10, e + 1)
    ELSE [m |-> m, e |-> e]

\* str.isalpha() and str.isdigit(): a superscript digit is a digit for
\* isdigit, and no digit for float()
str_isalpha(cs) == cs # <<>> /\ \A i \in 1..Len(cs) : cs[i] \in Letters
str_isdigit(c) == c \in Digits \cup {"sup2"}

\* (a substitution whose empty alternative wins everywhere and removes nothing)
RemoveCoinSymbols_Nothing(cs) == cs

\* re.sub(COIN_SYMBOL_RE, "", text) with COIN_SYMBOL_RE = (|R\$|US\$|€|\$|\s):
\* at each position the empty alternative matches first and is replaced by
\* nothing, then the scan retries the position for a non-empty match, so
\* every r$, us$, euro sign, $ and whitespace character is removed
RECURSIVE RemoveCoinSymbols(_)
RemoveCoinSymbols(cs) ==
    IF cs = <<>> THEN <<>>
    ELSE IF Len(cs) >= 2 /\ Lower(SubSeq(cs, 1, 2)) = <<"r", "$">>
         THEN RemoveCoinSymbols(SubSeq(cs, 3, Len(cs)))
    ELSE IF Len(cs) >= 3 /\ Lower(SubSeq(cs, 1, 3)) = <<"u", "s", "$">>
         THEN RemoveCoinSymbols(SubSeq(cs, 4, Len(cs)))
    ELSE IF Head(cs) \in {"euro", "$"} \/ IsSpace(Head(cs))
         THEN RemoveCoinSymbols(Tail(cs))
    ELSE <<Head(cs)>> \o RemoveCoinSymbols(Tail(cs))

\* str.replace(old, new) for one-character old; new is a sequence
RECURSIVE Replace(_, _, _)
Replace(cs, old, new) ==
    IF cs = <<>> THEN <<>>
    ELSE (IF Head(cs) = old THEN new ELSE <<Head(cs)>>) \o Replace(Tail(cs), old, new)

Has(cs, c) == \E i \in 1..Len(cs) : cs[i] = c

\* the decimal convention of lines 42-45
\* (a convention that takes every comma for a thousands separator)
DecimalConvention_CommaThousands(text) ==
    Replace(text, ",", <<>>)

DecimalConvention(text) ==
    IF Has(text, ".") /\ Has(text, ",")
    THEN Replace(Replace(text, ".", <<>>), ",", <<".">>)
    ELSE Replace(text, ",", <<".">>)

MULTIPLIERS ==
    { <<<<"k">>, 3>>, <<<<"m", "i", "l">>, 3>>,
      <<<<"t", "h", "o", "u", "s", "a", "n", "d">>, 3>>,
      <<<<"m">>, 6>>, <<<<"m", "i">>, 6>>,
      <<<<"m", "i", "l", "h", "a_tilde", "o">>, 6>>,
      <<<<"m", "i", "l", "h", "o_tilde", "e", "s">>, 6>>,
      <<<<"m", "i", "l", "l", "i", "o", "n">>, 6>>,
      <<<<"b">>, 9>>, <<<<"b", "i">>, 9>>,
      <<<<"b", "i", "l", "h", "a_tilde", "o">>, 9>>,
      <<<<"b", "i", "l", "h", "o_tilde", "e", "s">>, 9>>,
      <<<<"b", "i", "l", "l", "i", "o", "n">>, 9>>,
      <<<<"t">>, 12>>, <<<<"t", "r", "i">>, 12>>,
      <<<<"t", "r", "i", "l", "h", "a_tilde", "o">>, 12>>,
      <<<<"t", "r", "i", "l", "h", "o_tilde", "e", "s">>, 12>>,
      <<<<"t", "r", "i", "l", "l", "i", "o", "n">>, 12>>}

DigitValue(c) ==
    CASE c = "0" -> 0 [] c = "1" -> 1 [] c = "2" -> 2 [] c = "3" -> 3 [] c = "4" -> 4
      [] c = "5" -> 5 [] c = "6" -> 6 [] c = "7" -> 7 [] c = "8" -> 8 [] c = "9" -> 9

RECURSIVE IntOf(_, _)
IntOf(ds, acc) == IF ds = <<>> THEN acc ELSE IntOf(Tail(ds), 10 * acc + DigitValue(Head(ds)))

\* (a float() that reads a text without digits as zero)
float_Lenient(cs) ==
    LET digits == SelectSeq(cs, LAMBDA c : c \in Digits)
    IN  <<Decimal(IntOf(digits, 0), 0)>>

\* float(number_part_str) on a text of isdigit characters and points: the
\* number, or <<>> when float raises ValueError (no digit, a second point,
\* a digit that is no decimal digit)
float(cs) ==
    LET points == {i \in 1..Len(cs) : cs[i] = "."}
        digits == SelectSeq(cs, LAMBDA c : c # ".")
    IN  IF \/ Cardinality(points) > 1
           \/ digits = <<>>
           \/ \E i \in 1..Len(digits) : digits[i] \notin Digits
        THEN <<>>
        ELSE LET scale == IF points = {} THEN 0
                          ELSE Len(cs) - (CHOOSE i \in points : TRUE)
             IN  <<Decimal(IntOf(digits, 0), 0 - scale)>>

\* normalize_aum_value(raw_value): <<>> is None
normalize_aum_value(raw_value) ==
    LET lowered == Lower(raw_value)
    IN  IF str_isalpha(lowered) THEN <<>>
        ELSE LET text == DecimalConvention(Strip(RemoveCoinSymbols(lowered)))
                 number_part_str == SelectSeq(text, LAMBDA c : str_isdigit(c) \/ c = ".")
                 multiplier_part_str ==
                    SelectSeq(text, LAMBDA c : ~(str_isdigit(c) \/ c = "."))
                 number == float(number_part_str)
                 found == {kv \in MULTIPLIERS : kv[1] = multiplier_part_str}
                 multiplier == IF found = {} THEN 0 ELSE (CHOOSE kv \in found : TRUE)[2]
             IN  IF number = <<>> THEN <<>>
                 ELSE <<Decimal(number[1].m, number[1].e + multiplier)>>

(***************************************************************************)
(* Rows of the tables.  An optional column is <<>> (NULL) or <<value>>.    *)
(***************************************************************************)
SearchResultRow(c, q, res) ==
    [table |-> "search_results", company_id |-> c, query |-> q,
     title |-> res.title, url |-> res.url]

CompanyLinkRow(c, platform, url) ==
    [table |-> "company_links", company_id |-> c, platform |-> platform, url |-> url]

ScrapeLog(c, url, status, content_length, error_msg) ==
    [table |-> "scrape_logs", company_id |-> c, url |-> url, status |-> status,
     content_length |-> content_length, error_msg |-> error_msg]

RowsOf(rows, t) == SelectSeq(rows, LAMBDA row : row.table = t)

RECURSIVE SearchResultRows(_, _, _)
SearchResultRows(c, q, results) ==
    IF results = <<>> THEN <<>>
    ELSE <<SearchResultRow(c, q, Head(results))>> \o SearchResultRows(c, q, Tail(results))

(***************************************************************************)
(* The web.  What one url does when it is fetched: new_tab opens a page    *)
(* or raises; at most one of the tab's operations raises, with a message;  *)
(* page_source is the rendered markup.                                     *)
(***************************************************************************)
Behaviour(b) ==
    CASE b = "ok" ->
            [new_tab |-> TRUE, raises |-> "none", error |-> "",
             page_source |-> "<p>AUM R$ 2,3 bi</p>"]
      [] b = "empty" ->
            [new_tab |-> TRUE, raises |-> "none", error |-> "", page_source |-> ""]
      [] b = "timeout" ->
            [new_tab |-> TRUE, raises |-> "go_to", error |-> "Page timeout",
             page_source |-> "<p>never read</p>"]
      [] b = "noscript" ->
            [new_tab |-> TRUE, raises |-> "execute_script", error |-> "JS error",
             page_source |-> "<p>feed</p>"]
      [] b = "notab" ->
            [new_tab |-> FALSE, raises |-> "none", error |-> "no target",
             page_source |-> ""]

Behaviours == {"ok", "empty", "timeout", "noscript", "notab"}

Urls == {"linkedin.com/acme", "acme.com/ir", "g1.com/acme", "acme.com",
         "facebook.com/acme", "other.com"}

\* the urls whose fetch may go wrong: a social page and the report page
ProbeUrls == {"linkedin.com/acme", "acme.com/ir"}

WebOf(f) == [u \in Urls |-> IF u \in DOMAIN f THEN f[u] ELSE "ok"]

Webs == { WebOf(f) : f \in [ProbeUrls -> Behaviours] }

(***************************************************************************)
(* scrape_single_url(tab, url, category, company_id): the operations on    *)
(* the tab in program order, the try block and its except clause.          *)
(* Returns the content (<<>> for None), the log entry and the operations   *)
(* that ran.                                                               *)
(***************************************************************************)
ScrollCategories == {"instagram", "linkedin", "twitter", "x"}
ScrollCycles == 3

\* (a scrape that scrolls whatever the category is)
TabOperations_ScrollAll(category) ==
    <<"enable_network_events", "go_to">>
        \o [i \in 1..ScrollCycles |-> "execute_script"]
        \o <<"page_source">>

TabOperations(category) ==
    <<"enable_network_events", "go_to">>
        \o (IF category \in ScrollCategories
            THEN [i \in 1..ScrollCycles |-> "execute_script"] ELSE <<>>)
        \o <<"page_source">>

\* (an except clause that records no length)
scrape_single_url_NoLength(url, category, c, b) ==
    LET ops == TabOperations(category)
        bad == {i \in 1..Len(ops) : ops[i] = b.raises}
    IN  IF bad = {}
        THEN [content |-> <<b.page_source>>,
              log_entry |-> ScrapeLog(c, url, "SUCCESS", Len(b.page_source), <<>>),
              operations |-> ops]
        ELSE LET k == CHOOSE i \in bad : \A j \in bad : i <= j
             IN  [content |-> <<>>,
                  log_entry |-> ScrapeLog(c, url, "FAILED", 0, <<b.error>>),
                  operations |-> SubSeq(ops, 1, k)]

scrape_single_url(url, category, c, b) ==
    LET ops == TabOperations(category)
        bad == {i \in 1..Len(ops) : ops[i] = b.raises}
    IN  IF bad = {}
        THEN [content |-> <<b.page_source>>,
              log_entry |-> ScrapeLog(c, url, "SUCCESS", Len(b.page_source), <<>>),
              operations |-> ops]
        ELSE LET k == CHOOSE i \in bad : \A j \in bad : i <= j
             IN  [content |-> <<>>,
                  log_entry |-> ScrapeLog(c, url, "FAILED", Len(b.error), <<b.error>>),
                  operations |-> SubSeq(ops, 1, k)]

\* Python truth value of an `str | None`
Truthy(content) == content # <<>> /\ content[1] # ""

(***************************************************************************)
(* The fetch queue of scrape_discovered_urls: the categories in priority   *)
(* order, the urls of one category in the (arbitrary) order of its set.    *)
(***************************************************************************)
\* (the order of the discovered_urls dict instead of the priority list)
priority_order_DictOrder ==
    <<"corporate", "linkedin", "instagram", "twitter", "facebook", "news", "reports">>

priority_order ==
    <<"reports", "corporate", "news", "linkedin", "facebook", "instagram", "twitter">>

Item(url, category) == [url |-> url, category |-> category]

\* the sequences that list the elements of set S once each
Orderings(S) ==
    { f \in [1..Cardinality(S) -> S] : \A i, j \in 1..Cardinality(S) : f[i] = f[j] => i = j }

RECURSIVE QueuesFrom(_, _)
QueuesFrom(mapping, i) ==
    IF i > Len(priority_order) THEN {<<>>}
    ELSE LET category == priority_order[i]
             urls == IF category \in DOMAIN mapping THEN mapping[category] ELSE {}
         IN  { [k \in 1..Len(o) |-> Item(o[k], category)] \o rest :
                    o \in Orderings(urls), rest \in QueuesFrom(mapping, i + 1) }

Queues(mapping) == QueuesFrom(mapping, 1)

(***************************************************************************)
(* State.  Per run slot r: where process_company is (phase), its company,  *)
(* what the search provider and the web answer during the run, the locals  *)
(* of discover_company_resources and of scrape_discovered_urls, and the    *)
(* rows pending in the run's session.  The tables are shared by the runs.  *)
(***************************************************************************)
VARIABLES
    phase,            \* r -> position of process_company
    company_id,       \* r -> the id the task was given
    provider,         \* r -> query -> answer of the search provider
    web,              \* r -> url -> behaviour of the url when fetched
    discovered_urls,  \* r -> category -> set of urls
    dsem,             \* r -> free permits of discovery's semaphore
    dpc,              \* r -> query -> position of search_and_process
    checked,          \* r -> pairs <<platform, url>> the link loop has done
    urls_to_scrape,   \* r -> the fetch queue
    ssem,             \* r -> free permits of the scrape semaphore
    spc,              \* r -> queue index -> position of scrape_content
    logs_to_add,      \* r -> list of log entries
    scraped_content,  \* r -> list of {url, category, content}
    session,          \* r -> rows added to the session and not yet flushed
    company_links,    \* committed rows of company_links
    search_results,   \* committed rows of search_results
    scrape_logs,      \* committed rows of scrape_logs
    committed_runs,   \* <<company, provider>> of the discovery runs committed
    rerun,            \* r -> the run repeats a committed run of its company
    tasks,            \* number of tasks started so far
    scraped_pages,    \* r -> the list extract_aum was called with
    content,          \* r -> the content block extract_aum assembled
    response,         \* r -> what the completion provider answers in the run
    calls,            \* r -> number of calls of the completion provider
    result_text,      \* r -> the stripped response text, once received
    aum_snapshots,    \* committed rows of aum_snapshots
    usage,            \* committed rows of usage
    arg,              \* argument of the function a function specification calls
    ret,              \* what the call returned
    sessionmaker,     \* AsyncSessionLocal._sessionmaker: "made", or "none" after close()
    scope,            \* r -> one `async with AsyncSessionLocal.session()` block
    engine,           \* AsyncSessionLocal._engine: "made", or "none" after close()
    closer,           \* r -> one call of AsyncSessionLocal.close()
    conn,             \* r -> one `async with AsyncSessionLocal.connect()` block
    company_rows,     \* the companies table as the upload endpoint fills it: names by id
    dispatched,       \* the ids process_company_task.delay was called with, in order
    upload            \* r -> one request to upload_companies_csv

run_vars == <<phase, company_id, provider, web, rerun, tasks>>
discovery_vars == <<discovered_urls, dsem, dpc, checked>>
scrape_vars == <<urls_to_scrape, ssem, spc, logs_to_add, scraped_content>>
tables == <<company_links, search_results, scrape_logs, committed_runs>>

extract_vars == <<scraped_pages, content, response, calls, result_text, aum_snapshots, usage>>
upload_vars == <<company_rows, dispatched, upload>>
call_vars == <<arg, ret, sessionmaker, scope, engine, closer, conn, upload_vars>>

vars == <<run_vars, discovery_vars, scrape_vars, session, tables, extract_vars, call_vars>>

DiscoverySemaphore == 4
ScrapeSemaphore == 4

NoWeb == [u \in Urls |-> "ok"]
NoProvider == [q \in Queries |-> "none"]

\* a session() block that was not entered: where the manager is, how the
\* block ended, the calls made on the session in their order, and what the
\* `async with` statement raised to its caller
NoScope == [pc |-> "idle", block |-> "none", called |-> <<>>, raised |-> <<>>]

\* a request that has not arrived: where the handler is, the "Empresa"
\* values of the rows of its file, the row it is at, the id it has just
\* inserted, its counter, the ids it has dispatched, and its response
NoUpload ==
    [pc |-> "idle", file |-> <<>>, row |-> 0, id |-> 0, tasks_dispatched |-> 0,
     sent |-> <<>>, response |-> <<>>]

\* a close() that was not called: where it is, how often it has called
\* engine.dispose(), and what it raised
NoClose == [pc |-> "idle", disposed |-> 0, raised |-> <<>>]

PipelineInit ==
    /\ phase = [r \in Runs |-> "idle"]
    /\ company_id = [r \in Runs |-> NoCompany]
    /\ provider = [r \in Runs |-> NoProvider]
    /\ web = [r \in Runs |-> NoWeb]
    /\ rerun = [r \in Runs |-> FALSE]
    /\ discovered_urls = [r \in Runs |-> EmptyMapping]
    /\ dsem = [r \in Runs |-> DiscoverySemaphore]
    /\ dpc = [r \in Runs |-> [q \in Queries |-> "queued"]]
    /\ checked = [r \in Runs |-> {}]
    /\ urls_to_scrape = [r \in Runs |-> <<>>]
    /\ ssem = [r \in Runs |-> ScrapeSemaphore]
    /\ spc = [r \in Runs |-> <<>>]
    /\ logs_to_add = [r \in Runs |-> <<>>]
    /\ scraped_content = [r \in Runs |-> <<>>]
    /\ session = [r \in Runs |-> <<>>]
    /\ company_links = <<>>
    /\ search_results = <<>>
    /\ scrape_logs = <<>>
    /\ committed_runs = {}
    /\ tasks = 0
    /\ scraped_pages = [r \in Runs |-> <<>>]
    /\ content = [r \in Runs |-> <<>>]
    /\ response = [r \in Runs |-> "none"]
    /\ calls = [r \in Runs |-> 0]
    /\ result_text = [r \in Runs |-> <<>>]
    /\ aum_snapshots = <<>>
    /\ usage = <<>>
    /\ sessionmaker = "made"
    /\ scope = [r \in Runs |-> NoScope]
    /\ engine = "made"
    /\ closer = [r \in Runs |-> NoClose]
    /\ conn = [r \in Runs |-> NoScope]
    /\ company_rows = <<>>
    /\ dispatched = <<>>
    /\ upload = [r \in Runs |-> NoUpload]

\* no function call is pending in a pipeline run
Init == PipelineInit /\ arg = <<>> /\ ret = <<>>

(***************************************************************************)
(* process_company up to the gather of discover_company_resources: the     *)
(* company is loaded; when it is missing the task logs and returns.        *)
(* f is what the search provider will answer during this run.              *)
(***************************************************************************)
\* (a task that does not look whether the company exists)
process_company_NoCheck(r, id, f) ==
    /\ phase[r] = "idle"
    /\ tasks < MaxTasks
    /\ tasks' = tasks + 1
    /\ company_id' = [company_id EXCEPT ![r] = id]
    /\ phase' = [phase EXCEPT ![r] = "discovery"]
    /\ provider' = [provider EXCEPT ![r] = f]
    /\ rerun' = [rerun EXCEPT ![r] = <<id, f>> \in committed_runs]
    /\ discovered_urls' = [discovered_urls EXCEPT ![r] = EmptyMapping]
    /\ dsem' = [dsem EXCEPT ![r] = DiscoverySemaphore]
    /\ dpc' = [dpc EXCEPT ![r] = [q \in Queries |-> "queued"]]
    /\ checked' = [checked EXCEPT ![r] = {}]
    /\ UNCHANGED <<web, scrape_vars, session, tables>>
    /\ UNCHANGED <<extract_vars, call_vars>>

process_company(r, id, f) ==
    /\ phase[r] = "idle"
    /\ tasks < MaxTasks
    /\ tasks' = tasks + 1
    /\ company_id' = [company_id EXCEPT ![r] = id]
    /\ IF id \notin DOMAIN companies
       THEN /\ phase' = [phase EXCEPT ![r] = "done"]
            /\ UNCHANGED <<provider, rerun, discovery_vars>>
       ELSE /\ phase' = [phase EXCEPT ![r] = "discovery"]
            /\ provider' = [provider EXCEPT ![r] = f]
            /\ rerun' = [rerun EXCEPT ![r] = <<id, f>> \in committed_runs]
            /\ discovered_urls' = [discovered_urls EXCEPT ![r] = EmptyMapping]
            /\ dsem' = [dsem EXCEPT ![r] = DiscoverySemaphore]
            /\ dpc' = [dpc EXCEPT ![r] = [q \in Queries |-> "queued"]]
            /\ checked' = [checked EXCEPT ![r] = {}]
    /\ UNCHANGED <<web, scrape_vars, session, tables>>
    /\ UNCHANGED <<extract_vars, call_vars>>

(***************************************************************************)
(* search_and_process(browser, query).  asyncio.Semaphore wakes its        *)
(* waiters in the order they arrived, and gather starts the units in list  *)
(* order, so a unit enters once every earlier unit has.                    *)
(***************************************************************************)
DiscoveryAcquire_NoLimit(r, q) ==
    /\ phase[r] = "discovery"
    /\ dpc[r][q] = "queued"
    /\ \A p \in Queries : p < q => dpc[r][p] # "queued"
    /\ dsem' = [dsem EXCEPT ![r] = @ - 1]
    /\ dpc' = [dpc EXCEPT ![r][q] = "searching"]
    /\ UNCHANGED <<run_vars, discovered_urls, checked, scrape_vars, session, tables>>
    /\ UNCHANGED <<extract_vars, call_vars>>

DiscoveryAcquire(r, q) ==
    /\ phase[r] = "discovery"
    /\ dpc[r][q] = "queued"
    /\ \A p \in Queries : p < q => dpc[r][p] # "queued"
    /\ dsem[r] > 0
    /\ dsem' = [dsem EXCEPT ![r] = @ - 1]
    /\ dpc' = [dpc EXCEPT ![r][q] = "searching"]
    /\ UNCHANGED <<run_vars, discovered_urls, checked, scrape_vars, session, tables>>
    /\ UNCHANGED <<extract_vars, call_vars>>

\* (without the try: the exception leaves the unit and gather raises it)
search_and_process_NoTry(r, q) ==
    /\ phase[r] = "discovery"
    /\ dpc[r][q] = "searching"
    /\ IF provider[r][q] = "raise"
       THEN /\ phase' = [phase EXCEPT ![r] = "raised"]
            /\ dpc' = [dpc EXCEPT ![r][q] = "done"]
            /\ UNCHANGED <<session, discovered_urls>>
       ELSE LET search_res ==
                    duckduckgo_search(provider[r][q], companies[company_id[r]])
            IN  /\ session' = [session EXCEPT ![r] =
                        @ \o SearchResultRows(company_id[r], q, search_res)]
                /\ discovered_urls' = [discovered_urls EXCEPT ![r] =
                        categorize_search_results(search_res, @)]
                /\ dpc' = [dpc EXCEPT ![r][q] = "sleeping"]
                /\ UNCHANGED phase
    /\ UNCHANGED <<company_id, provider, web, rerun, tasks, dsem, checked, scrape_vars,
                   tables>>
    /\ UNCHANGED <<extract_vars, call_vars>>

\* duckduckgo_search returns or raises; the rows are added and the results
\* categorized, or the exception is caught and logged
search_and_process(r, q) ==
    /\ phase[r] = "discovery"
    /\ dpc[r][q] = "searching"
    /\ dpc' = [dpc EXCEPT ![r][q] = "sleeping"]
    /\ IF provider[r][q] = "raise"
       THEN UNCHANGED <<session, discovered_urls>>
       ELSE LET search_res ==
                    duckduckgo_search(provider[r][q], companies[company_id[r]])
            IN  /\ session' = [session EXCEPT ![r] =
                        @ \o SearchResultRows(company_id[r], q, search_res)]
                /\ discovered_urls' = [discovered_urls EXCEPT ![r] =
                        categorize_search_results(search_res, @)]
    /\ UNCHANGED <<run_vars, dsem, checked, scrape_vars, tables>>
    /\ UNCHANGED <<extract_vars, call_vars>>

\* asyncio.sleep(1) returns and the unit leaves `async with semaphore`
DiscoveryRelease(r, q) ==
    /\ phase[r] = "discovery"
    /\ dpc[r][q] = "sleeping"
    /\ dpc' = [dpc EXCEPT ![r][q] = "done"]
    /\ dsem' = [dsem EXCEPT ![r] = @ + 1]
    /\ UNCHANGED <<run_vars, discovered_urls, checked, scrape_vars, session, tables>>
    /\ UNCHANGED <<extract_vars, call_vars>>

\* (a join that returns with the first unit that finishes)
DiscoveryJoin_First(r) ==
    /\ phase[r] = "discovery"
    /\ \E q \in Queries : dpc[r][q] = "done"
    /\ phase' = [phase EXCEPT ![r] = "linking"]
    /\ UNCHANGED <<company_id, provider, web, rerun, tasks, discovery_vars, scrape_vars,
                   session, tables>>
    /\ UNCHANGED <<extract_vars, call_vars>>

\* asyncio.gather(*tasks) returns once every unit has finished
DiscoveryJoin(r) ==
    /\ phase[r] = "discovery"
    /\ \A q \in Queries : dpc[r][q] = "done"
    /\ phase' = [phase EXCEPT ![r] = "linking"]
    /\ UNCHANGED <<company_id, provider, web, rerun, tasks, discovery_vars, scrape_vars,
                   session, tables>>
    /\ UNCHANGED <<extract_vars, call_vars>>

(***************************************************************************)
(* The link loop.  The session is made with autoflush=False, so the SELECT *)
(* sees the committed rows only, never the rows pending in the session.    *)
(***************************************************************************)
\* (a check that finds nothing)
LinkExists_Never(url) == FALSE

LinkExists(url) == \E i \in 1..Len(company_links) : company_links[i].url = url

Unchecked(r, platform) ==
    {u \in discovered_urls[r][platform] : <<platform, u>> \notin checked[r]}

\* the platform the loop is at: the first of the dict with an unchecked url
CurrentPlatform(r) ==
    LET open == {i \in 1..Len(Categories) : Unchecked(r, Categories[i]) # {}}
    IN  IF open = {} THEN "none"
        ELSE Categories[CHOOSE i \in open : \A j \in open : i <= j]

CheckLink(r, url) ==
    /\ phase[r] = "linking"
    /\ CurrentPlatform(r) # "none"
    /\ url \in Unchecked(r, CurrentPlatform(r))
    /\ checked' = [checked EXCEPT ![r] = @ \cup {<<CurrentPlatform(r), url>>}]
    /\ session' = [session EXCEPT ![r] =
            IF LinkExists(url) THEN @
            ELSE Append(@, CompanyLinkRow(company_id[r], CurrentPlatform(r), url))]
    /\ UNCHANGED <<run_vars, discovered_urls, dsem, dpc, scrape_vars, tables>>
    /\ UNCHANGED <<extract_vars, call_vars>>

(***************************************************************************)
(* db.commit(): the flush sends the pending INSERTs; company_links.url is  *)
(* declared unique, so a row whose url is already in the table, or twice   *)
(* among the rows of this flush, makes the commit raise IntegrityError.    *)
(***************************************************************************)
\* (a table without the unique constraint)
UniqueViolation_Off(rows) == FALSE

UniqueViolation(rows) ==
    LET links == RowsOf(rows, "company_links")
    IN  \/ \E i \in 1..Len(links) : LinkExists(links[i].url)
        \/ \E i, j \in 1..Len(links) : i # j /\ links[i].url = links[j].url

DiscoveryCommit(r) ==
    /\ phase[r] = "linking"
    /\ CurrentPlatform(r) = "none"
    /\ session' = [session EXCEPT ![r] = <<>>]
    /\ IF UniqueViolation(session[r])
       THEN /\ phase' = [phase EXCEPT ![r] = "raised"]
            /\ UNCHANGED tables
       ELSE /\ phase' = [phase EXCEPT ![r] = "discovered"]
            /\ company_links' = company_links \o RowsOf(session[r], "company_links")
            /\ search_results' = search_results \o RowsOf(session[r], "search_results")
            /\ committed_runs' = committed_runs \cup {<<company_id[r], provider[r]>>}
            /\ UNCHANGED scrape_logs
    /\ UNCHANGED <<company_id, provider, web, rerun, tasks, discovery_vars, scrape_vars>>
    /\ UNCHANGED <<extract_vars, call_vars>>

(***************************************************************************)
(* scrape_discovered_urls(discovered_urls, company, db) up to its gather:  *)
(* the queue is built and one scrape_content unit is made per item.        *)
(* w is what the web will do during this run.                              *)
(***************************************************************************)
scrape_discovered_urls(r, queue, w) ==
    /\ phase[r] = "discovered"
    /\ queue \in Queues(discovered_urls[r])
    /\ phase' = [phase EXCEPT ![r] = "scraping"]
    /\ web' = [web EXCEPT ![r] = w]
    /\ urls_to_scrape' = [urls_to_scrape EXCEPT ![r] = queue]
    /\ ssem' = [ssem EXCEPT ![r] = ScrapeSemaphore]
    /\ spc' = [spc EXCEPT ![r] = [k \in 1..Len(queue) |-> "queued"]]
    /\ logs_to_add' = [logs_to_add EXCEPT ![r] = <<>>]
    /\ scraped_content' = [scraped_content EXCEPT ![r] = <<>>]
    /\ UNCHANGED <<company_id, provider, rerun, tasks, discovery_vars, session, tables>>
    /\ UNCHANGED <<extract_vars, call_vars>>

Units(r) == 1..Len(urls_to_scrape[r])

\* the units keep running after gather has raised, until the loop is torn down
UnitsAlive(r) == phase[r] \in {"scraping", "raised"}

\* scrape_content enters `async with semaphore` and calls browser.new_tab();
\* an item with an empty url leaves at once
ScrapeAcquire(r, k) ==
    /\ UnitsAlive(r)
    /\ spc[r][k] = "queued"
    /\ \A j \in Units(r) : j < k => spc[r][j] # "queued"
    /\ ssem[r] > 0
    /\ IF urls_to_scrape[r][k].url = ""
       THEN /\ spc' = [spc EXCEPT ![r][k] = "done"]
            /\ UNCHANGED ssem
       ELSE /\ spc' = [spc EXCEPT ![r][k] = "opening"]
            /\ ssem' = [ssem EXCEPT ![r] = @ - 1]
    /\ UNCHANGED <<run_vars, discovery_vars, urls_to_scrape, logs_to_add,
                   scraped_content, session, tables>>
    /\ UNCHANGED <<extract_vars, call_vars>>

\* browser.new_tab() returns the tab, or raises: the call is outside any try,
\* so the exception leaves scrape_content (releasing the semaphore)
NewTab(r, k) ==
    /\ UnitsAlive(r)
    /\ spc[r][k] = "opening"
    /\ IF Behaviour(web[r][urls_to_scrape[r][k].url]).new_tab
       THEN /\ spc' = [spc EXCEPT ![r][k] = "scraping"]
            /\ UNCHANGED ssem
       ELSE /\ spc' = [spc EXCEPT ![r][k] = "raised"]
            /\ ssem' = [ssem EXCEPT ![r] = @ + 1]
    /\ UNCHANGED <<run_vars, discovery_vars, urls_to_scrape, logs_to_add,
                   scraped_content, session, tables>>
    /\ UNCHANGED <<extract_vars, call_vars>>

\* scrape_single_url returns; the log entry is kept, and the content when
\* it is truthy
scrape_content(r, k) ==
    /\ UnitsAlive(r)
    /\ spc[r][k] = "scraping"
    /\ LET item == urls_to_scrape[r][k]
           got == scrape_single_url(item.url, item.category, company_id[r],
                                    Behaviour(web[r][item.url]))
       IN  /\ logs_to_add' = [logs_to_add EXCEPT ![r] = Append(@, got.log_entry)]
           /\ scraped_content' = [scraped_content EXCEPT ![r] =
                    IF Truthy(got.content)
                    THEN Append(@, [url |-> item.url, category |-> item.category,
                                    content |-> got.content[1]])
                    ELSE @]
    /\ spc' = [spc EXCEPT ![r][k] = "sleeping"]
    /\ UNCHANGED <<run_vars, discovery_vars, urls_to_scrape, ssem, session, tables>>
    /\ UNCHANGED <<extract_vars, call_vars>>

\* asyncio.sleep(1) returns and the unit leaves `async with semaphore`
ScrapeRelease(r, k) ==
    /\ UnitsAlive(r)
    /\ spc[r][k] = "sleeping"
    /\ spc' = [spc EXCEPT ![r][k] = "done"]
    /\ ssem' = [ssem EXCEPT ![r] = @ + 1]
    /\ UNCHANGED <<run_vars, discovery_vars, urls_to_scrape, logs_to_add,
                   scraped_content, session, tables>>
    /\ UNCHANGED <<extract_vars, call_vars>>

\* asyncio.gather(*tasks) returns once every unit has finished ...
ScrapeJoin(r) ==
    /\ phase[r] = "scraping"
    /\ \A k \in Units(r) : spc[r][k] = "done"
    /\ phase' = [phase EXCEPT ![r] = "logging"]
    /\ UNCHANGED <<company_id, provider, web, rerun, tasks, discovery_vars, scrape_vars,
                   session, tables>>
    /\ UNCHANGED <<extract_vars, call_vars>>

\* ... or raises the first exception that left a unit: scrape_discovered_urls
\* is left by the exception, before db.add_all and db.commit
ScrapeGatherRaises(r) ==
    /\ phase[r] = "scraping"
    /\ \E k \in Units(r) : spc[r][k] = "raised"
    /\ phase' = [phase EXCEPT ![r] = "raised"]
    /\ UNCHANGED <<company_id, provider, web, rerun, tasks, discovery_vars, scrape_vars,
                   session, tables>>
    /\ UNCHANGED <<extract_vars, call_vars>>

\* db.add_all(logs_to_add); await db.commit(); return scraped_content
ScrapeCommit(r) ==
    /\ phase[r] = "logging"
    /\ session' = [session EXCEPT ![r] = <<>>]
    /\ IF UniqueViolation(session[r] \o logs_to_add[r])
       THEN /\ phase' = [phase EXCEPT ![r] = "raised"]
            /\ UNCHANGED tables
       ELSE /\ phase' = [phase EXCEPT ![r] = "scraped"]
            /\ scrape_logs' = scrape_logs \o RowsOf(session[r] \o logs_to_add[r], "scrape_logs")
            /\ company_links' =
                    company_links \o RowsOf(session[r] \o logs_to_add[r], "company_links")
            /\ search_results' =
                    search_results \o RowsOf(session[r] \o logs_to_add[r], "search_results")
            /\ UNCHANGED committed_runs
    /\ UNCHANGED <<company_id, provider, web, rerun, tasks, discovery_vars, scrape_vars>>
    /\ UNCHANGED <<extract_vars, call_vars>>

(***************************************************************************)
(* process_company_task: an exception that leaves process_company rolls    *)
(* the session back and closes it, and asyncio.run cancels the units that  *)
(* are still alive before the task ends with the exception.                *)
(***************************************************************************)
TaskFails(r) ==
    /\ phase[r] = "raised"
    /\ phase' = [phase EXCEPT ![r] = "failed"]
    /\ session' = [session EXCEPT ![r] = <<>>]
    /\ spc' = [spc EXCEPT ![r] =
            [k \in DOMAIN @ |-> IF @[k] \in {"done", "raised"} THEN @[k] ELSE "cancelled"]]
    /\ ssem' = [ssem EXCEPT ![r] =
            @ + Cardinality({k \in Units(r) : spc[r][k] \in {"opening", "scraping", "sleeping"}})]
    /\ UNCHANGED <<company_id, provider, web, rerun, tasks, discovery_vars, urls_to_scrape,
                   logs_to_add, scraped_content, tables>>
    /\ UNCHANGED <<extract_vars, call_vars>>

(***************************************************************************)
(* The tokenizer (utils/extraction.py `encoding`) and                      *)
(* truncate_prompt_if_needed.  A token is a sequence of UTF-8 bytes; the   *)
(* vocabulary holds every single byte and some longer sequences, so a      *)
(* character of several bytes may be spread over two tokens.  decode joins *)
(* the bytes and reads them as UTF-8 with errors="replace".                *)
(***************************************************************************)
\* the UTF-8 bytes of a character
Utf8(c) ==
    CASE c = "o_circ" -> <<"C3", "B4">>
      [] c = "fffd" -> <<"EF", "BF", "BD">>
      [] c = "moneybag" -> <<"F0", "9F", "92", "B0">>
      [] OTHER -> <<c>>

PromptChars == {"a", " ", "o_circ", "fffd", "moneybag"}

RECURSIVE Utf8Bytes(_)
Utf8Bytes(cs) == IF cs = <<>> THEN <<>> ELSE Utf8(Head(cs)) \o Utf8Bytes(Tail(cs))

\* the tokens of more than one byte
Vocabulary ==
    { <<"a", "a">>, <<" ", "a">>, <<"C3", "B4">>, <<"EF", "BF", "BD">>,
      <<"F0", "9F">>, <<"92", "B0">> }

IsPrefix(a, b) == Len(a) <= Len(b) /\ SubSeq(b, 1, Len(a)) = a

\* the length of the token the byte sequence starts with: the longest
\* vocabulary entry, else the single byte
TokenLen(bytes) ==
    LET fit == { Len(t) : t \in { v \in Vocabulary : IsPrefix(v, bytes) } }
    IN  IF fit = {} THEN 1 ELSE CHOOSE n \in fit : \A m \in fit : m <= n

RECURSIVE Tokenize(_)
Tokenize(bytes) ==
    IF bytes = <<>> THEN <<>>
    ELSE LET n == TokenLen(bytes)
         IN  <<SubSeq(bytes, 1, n)>> \o Tokenize(SubSeq(bytes, n + 1, Len(bytes)))

\* encoding.encode(text)
encode(text) == Tokenize(Utf8Bytes(text))

RECURSIVE Concat(_)
Concat(tokens) == IF tokens = <<>> THEN <<>> ELSE Head(tokens) \o Concat(Tail(tokens))

\* bytes.decode("utf-8", errors="replace"): a whole character is read; a
\* truncated or broken character becomes one U+FFFD for its longest run of
\* bytes that begins a character, and a byte that begins none becomes one
RECURSIVE Utf8Decode(_)
Utf8Decode(bytes) ==
    IF bytes = <<>> THEN <<>>
    ELSE LET whole == { c \in PromptChars : IsPrefix(Utf8(c), bytes) }
             part == { n \in 1..Len(bytes) :
                         \E c \in PromptChars : IsPrefix(SubSeq(bytes, 1, n), Utf8(c)) }
             skip == IF part = {} THEN 1 ELSE CHOOSE n \in part : \A m \in part : m <= n
         IN  IF whole # {}
             THEN LET c == CHOOSE x \in whole : TRUE
                  IN  <<c>> \o Utf8Decode(SubSeq(bytes, Len(Utf8(c)) + 1, Len(bytes)))
             ELSE <<"fffd">> \o Utf8Decode(SubSeq(bytes, skip + 1, Len(bytes)))

\* encoding.decode(tokens)
decode(tokens) == Utf8Decode(Concat(tokens))

\* (a cut that keeps one token more than the ceiling: tokens[:max_tokens + 1])
truncate_prompt_if_needed_OneMore(prompt, max_tokens) ==
    LET tokens == encode(prompt)
    IN  IF Len(tokens) > max_tokens
        THEN decode(SubSeq(tokens, 1, max_tokens + 1))
        ELSE prompt

truncate_prompt_if_needed(prompt, max_tokens) ==
    LET tokens == encode(prompt)
    IN  IF Len(tokens) > max_tokens
        THEN decode(SubSeq(tokens, 1, max_tokens))
        ELSE prompt

(***************************************************************************)
(* AIExtractionAgent.extract_aum(company, scraped_pages, db).  The         *)
(* completion provider either raises or returns a response with its text   *)
(* and the total_tokens of its metrics.                                    *)
(***************************************************************************)
Response(name) ==
    CASE name = "sentinel" -> [content |-> " NAO_DISPONIVEL\n", total_tokens |-> 120]
      [] name = "value" -> [content |-> "R$ 2,3 bi\n\nFonte: acme.com/ir", total_tokens |-> 200]
      [] name = "one_line" -> [content |-> "R$ 2,3 bi", total_tokens |-> 90]
      [] name = "invalid" ->
            [content |-> "Invalid Text\n\nFonte: acme.com/ir", total_tokens |-> 210]
      [] name = "zero" -> [content |-> "0\n\nFonte: acme.com/ir", total_tokens |-> 190]
      [] name = "flow" ->
            [content |-> "R$ 500 milhões\n\nFonte: https://fake.url/report",
             total_tokens |-> 125]
      [] name = "mixed_case" ->
            [content |-> "R$ 2,3 bi\nNao_Disponivel\nFonte: acme.com/ir",
             total_tokens |-> 205]
      [] name = "example" ->
            [content |-> "R$ 2,3 bi\n\nFonte: example.com/ir", total_tokens |-> 201]
      [] name = "no_symbol" -> [content |-> "25b\n\nFonte: acme.com/ir", total_tokens |-> 180]
      [] name = "fraction" ->
            [content |-> "€ 123.456,78\n\nFonte: acme.com/ir", total_tokens |-> 215]

Responses ==
    {"raise", "sentinel", "value", "one_line", "invalid", "zero", "flow", "mixed_case",
     "example", "no_symbol", "fraction"}

UsageRow(c, operation, tokens) ==
    [table |-> "usage", company_id |-> c, operation_type |-> operation,
     tokens_used |-> tokens]

\* (a snapshot whose standardized_value is never set)
AUMSnapshot_NoStandardized(c, aum_value, aum_unit, standardized_value, source_url) ==
    [table |-> "aum_snapshots", company_id |-> c, aum_value |-> aum_value,
     aum_unit |-> aum_unit, standardized_value |-> <<>>,
     source_url |-> source_url]

AUMSnapshot(c, aum_value, aum_unit, standardized_value, source_url) ==
    [table |-> "aum_snapshots", company_id |-> c, aum_value |-> aum_value,
     aum_unit |-> aum_unit, standardized_value |-> standardized_value,
     source_url |-> source_url]

\* the content block: one entry per page with relevant content
RECURSIVE ContentBlock(_)
ContentBlock(pages) ==
    IF pages = <<>> THEN <<>>
    ELSE LET relevant_content == extract_relevant_chunks(Document(Head(pages).content))
         IN  (IF relevant_content = <<>> THEN <<>>
              ELSE <<[source |-> Head(pages).url, relevant_content |-> relevant_content]>>)
             \o ContentBlock(Tail(pages))

\* (an agent that is started while the scrape logs are still uncommitted)
extract_aum_BeforeCommit(r, resp) ==
    /\ phase[r] = "logging"
    /\ phase' = [phase EXCEPT ![r] = "extracting"]
    /\ scraped_pages' = [scraped_pages EXCEPT ![r] = scraped_content[r]]
    /\ content' = [content EXCEPT ![r] = ContentBlock(scraped_content[r])]
    /\ response' = [response EXCEPT ![r] = resp]
    /\ calls' = [calls EXCEPT ![r] = @ + 1]
    /\ UNCHANGED <<result_text, aum_snapshots, usage>>
    /\ UNCHANGED <<company_id, provider, web, rerun, tasks, discovery_vars, scrape_vars,
                   session, tables, call_vars>>

\* (an agent that does not ask the provider when the content block is empty)
extract_aum_SkipsEmpty(r, resp) ==
    /\ phase[r] = "scraped"
    /\ phase' = [phase EXCEPT ![r] = "extracting"]
    /\ scraped_pages' = [scraped_pages EXCEPT ![r] = scraped_content[r]]
    /\ content' = [content EXCEPT ![r] = ContentBlock(scraped_content[r])]
    /\ response' = [response EXCEPT ![r] = resp]
    /\ calls' = [calls EXCEPT ![r] =
            IF ContentBlock(scraped_content[r]) = <<>> THEN @ ELSE @ + 1]
    /\ UNCHANGED <<result_text, aum_snapshots, usage>>
    /\ UNCHANGED <<company_id, provider, web, rerun, tasks, discovery_vars, scrape_vars,
                   session, tables, call_vars>>

\* process_company line 36 and extract_aum up to `await self.arun(prompt)`
extract_aum(r, resp) ==
    /\ phase[r] = "scraped"
    /\ phase' = [phase EXCEPT ![r] = "extracting"]
    /\ scraped_pages' = [scraped_pages EXCEPT ![r] = scraped_content[r]]
    /\ content' = [content EXCEPT ![r] = ContentBlock(scraped_content[r])]
    /\ response' = [response EXCEPT ![r] = resp]
    /\ calls' = [calls EXCEPT ![r] = @ + 1]
    /\ UNCHANGED <<result_text, aum_snapshots, usage>>
    /\ UNCHANGED <<company_id, provider, web, rerun, tasks, discovery_vars, scrape_vars,
                   session, tables, call_vars>>

\* (a provider failure after which the agent is started again)
log_usage_Retry(r) ==
    /\ phase[r] = "extracting"
    /\ IF response[r] = "raise"
       THEN /\ phase' = [phase EXCEPT ![r] = "scraped"]
            /\ UNCHANGED <<result_text, usage>>
       ELSE /\ phase' = [phase EXCEPT ![r] = "parsing"]
            /\ result_text' =
                    [result_text EXCEPT ![r] = Strip(Chars(Response(response[r]).content))]
            /\ usage' = Append(usage, UsageRow(company_id[r], "aum_extraction",
                                               Response(response[r]).total_tokens))
    /\ UNCHANGED <<scraped_pages, content, response, calls, aum_snapshots>>
    /\ UNCHANGED <<company_id, provider, web, rerun, tasks, discovery_vars, scrape_vars,
                   session, tables, call_vars>>

\* (a response whose token usage is not recorded)
log_usage_Skipped(r) ==
    /\ phase[r] = "extracting"
    /\ IF response[r] = "raise"
       THEN /\ phase' = [phase EXCEPT ![r] = "done"]
            /\ UNCHANGED <<result_text, usage>>
       ELSE /\ phase' = [phase EXCEPT ![r] = "parsing"]
            /\ result_text' =
                    [result_text EXCEPT ![r] = Strip(Chars(Response(response[r]).content))]
            /\ UNCHANGED usage
    /\ UNCHANGED <<scraped_pages, content, response, calls, aum_snapshots>>
    /\ UNCHANGED <<company_id, provider, web, rerun, tasks, discovery_vars, scrape_vars,
                   session, tables, call_vars>>

\* the try block: the provider raises and extract_aum logs and returns, or
\* the response arrives and log_usage adds and commits the usage row
log_usage(r) ==
    /\ phase[r] = "extracting"
    /\ IF response[r] = "raise"
       THEN /\ phase' = [phase EXCEPT ![r] = "done"]
            /\ UNCHANGED <<result_text, usage>>
       ELSE /\ phase' = [phase EXCEPT ![r] = "parsing"]
            /\ result_text' =
                    [result_text EXCEPT ![r] = Strip(Chars(Response(response[r]).content))]
            /\ usage' = Append(usage, UsageRow(company_id[r], "aum_extraction",
                                               Response(response[r]).total_tokens))
    /\ UNCHANGED <<scraped_pages, content, response, calls, aum_snapshots>>
    /\ UNCHANGED <<company_id, provider, web, rerun, tasks, discovery_vars, scrape_vars,
                   session, tables, call_vars>>

\* re.search(r"(|R\$|US\$|€|\$)", raw_value): the empty alternative matches at
\* position 0, so the search always succeeds and group(1) is the empty string
unit_search(raw_value) == <<(<<>>)>>

\* str.lstrip(chars): leading characters that belong to chars are removed
RECURSIVE lstrip(_, _)
lstrip(cs, chars) ==
    IF cs # <<>> /\ Has(chars, Head(cs)) THEN lstrip(Tail(cs), chars) ELSE cs

\* int(x) of a float: the fraction is cut off
RECURSIVE int(_)
int(x) == IF x.e >= 0 THEN x ELSE int([m |-> x.m \div 10, e |-> x.e + 1])

\* Python truth value of a `float | None`
TruthyNumber(x) == x # <<>> /\ x[1].m # 0

\* (a parse that keeps the raw value of a response it cannot normalize)
ParseResponse_KeepsRaw(r) ==
    /\ phase[r] = "parsing"
    /\ LET lines == SplitLines(result_text[r])
       IN  IF Contains(Upper(result_text[r]), Chars("NAO_DISPONIVEL"))
           THEN /\ aum_snapshots' = Append(aum_snapshots,
                        AUMSnapshot(company_id[r], Chars("NAO_DISPONIVEL"), <<>>, <<>>, <<>>))
                /\ phase' = [phase EXCEPT ![r] = "done"]
           ELSE IF Len(lines) # 3
           THEN /\ phase' = [phase EXCEPT ![r] = "raised"]
                /\ UNCHANGED aum_snapshots
           ELSE LET raw_value == lines[1]
                    source_url == lines[3]
                    standardized_value == normalize_aum_value(raw_value)
                IN  /\ phase' = [phase EXCEPT ![r] = "done"]
                    /\ IF TruthyNumber(standardized_value)
                       THEN aum_snapshots' = Append(aum_snapshots,
                                AUMSnapshot(company_id[r], raw_value,
                                            unit_search(raw_value),
                                            <<int(standardized_value[1])>>,
                                            <<lstrip(source_url, Chars("Fonte: "))>>))
                       ELSE aum_snapshots' = Append(aum_snapshots,
                                AUMSnapshot(company_id[r], raw_value, <<>>, <<>>, <<>>))
    /\ UNCHANGED <<scraped_pages, content, response, calls, result_text, usage>>
    /\ UNCHANGED <<company_id, provider, web, rerun, tasks, discovery_vars, scrape_vars,
                   session, tables, call_vars>>

\* extract_aum lines 83-108: the sentinel, the unpacking of the three lines
\* (ValueError when the text has another number of lines) and the snapshot
ParseResponse(r) ==
    /\ phase[r] = "parsing"
    /\ LET lines == SplitLines(result_text[r])
       IN  IF Contains(Upper(result_text[r]), Chars("NAO_DISPONIVEL"))
           THEN /\ aum_snapshots' = Append(aum_snapshots,
                        AUMSnapshot(company_id[r], Chars("NAO_DISPONIVEL"), <<>>, <<>>, <<>>))
                /\ phase' = [phase EXCEPT ![r] = "done"]
           ELSE IF Len(lines) # 3
           THEN /\ phase' = [phase EXCEPT ![r] = "raised"]
                /\ UNCHANGED aum_snapshots
           ELSE LET raw_value == lines[1]
                    source_url == lines[3]
                    standardized_value == normalize_aum_value(raw_value)
                IN  /\ phase' = [phase EXCEPT ![r] = "done"]
                    /\ IF TruthyNumber(standardized_value)
                       THEN aum_snapshots' = Append(aum_snapshots,
                                AUMSnapshot(company_id[r], raw_value,
                                            unit_search(raw_value),
                                            <<int(standardized_value[1])>>,
                                            <<lstrip(source_url, Chars("Fonte: "))>>))
                       ELSE UNCHANGED aum_snapshots
    /\ UNCHANGED <<scraped_pages, content, response, calls, result_text, usage>>
    /\ UNCHANGED <<company_id, provider, web, rerun, tasks, discovery_vars, scrape_vars,
                   session, tables, call_vars>>

ExtractionAgent(r) ==
    \/ log_usage(r)
    \/ ParseResponse(r)

DiscoveryUnits(r) ==
    \E q \in Queries :
        \/ DiscoveryAcquire(r, q)
        \/ search_and_process(r, q)
        \/ DiscoveryRelease(r, q)

LinkLoop(r) ==
    \/ \E u \in Urls : CheckLink(r, u)
    \/ DiscoveryCommit(r)

ScrapeUnits(r) ==
    \E k \in Units(r) :
        \/ ScrapeAcquire(r, k)
        \/ NewTab(r, k)
        \/ scrape_content(r, k)
        \/ ScrapeRelease(r, k)

ScrapeOrchestrator(r) ==
    \/ ScrapeJoin(r)
    \/ ScrapeGatherRaises(r)
    \/ ScrapeCommit(r)

(***************************************************************************)
(* LinkSpec: several tasks, each with its own session, on one database.    *)
(* The searches of a run touch nothing but the run's own discovered_urls   *)
(* and session, so here a run reaches its link loop in one step: every     *)
(* query has been answered, in some order of completion.                   *)
(***************************************************************************)
RECURSIVE Gathered(_, _, _, _)
Gathered(c, f, order, acc) ==
    IF order = <<>> THEN acc
    ELSE LET q == Head(order)
             search_res == IF f[q] = "raise" THEN <<>>
                           ELSE duckduckgo_search(f[q], companies[c])
         IN  Gathered(c, f, Tail(order),
                      [rows |-> acc.rows \o SearchResultRows(c, q, search_res),
                       urls |-> categorize_search_results(search_res, acc.urls)])

discover_company_resources(r, id, f, order) ==
    /\ phase[r] = "idle"
    /\ tasks < MaxTasks
    /\ id \in DOMAIN companies
    /\ LET got == Gathered(id, f, order, [rows |-> <<>>, urls |-> EmptyMapping])
       IN  /\ session' = [session EXCEPT ![r] = got.rows]
           /\ discovered_urls' = [discovered_urls EXCEPT ![r] = got.urls]
    /\ tasks' = tasks + 1
    /\ phase' = [phase EXCEPT ![r] = "linking"]
    /\ company_id' = [company_id EXCEPT ![r] = id]
    /\ provider' = [provider EXCEPT ![r] = f]
    /\ rerun' = [rerun EXCEPT ![r] = <<id, f>> \in committed_runs]
    /\ dpc' = [dpc EXCEPT ![r] = [q \in Queries |-> "done"]]
    /\ checked' = [checked EXCEPT ![r] = {}]
    /\ UNCHANGED <<web, dsem, scrape_vars, tables>>
    /\ UNCHANGED <<extract_vars, call_vars>>

\* the rest of the task writes no company_links row; when the task has ended
\* its slot takes the next task
TaskEnds(r) ==
    /\ phase[r] \in {"discovered", "failed"}
    /\ phase' = [phase EXCEPT ![r] = "idle"]
    /\ UNCHANGED <<company_id, provider, web, rerun, tasks, discovery_vars, scrape_vars,
                   session, tables>>
    /\ UNCHANGED <<extract_vars, call_vars>>

LinkProviders == { f \in Providers : f[5] = "none" }

LinkNext ==
    \E r \in Runs :
        \/ /\ phase[r] = "idle"
           /\ \E id \in DOMAIN companies, f \in LinkProviders :
                \E order \in Orderings({q \in Queries : f[q] \in Pages}) :
                    discover_company_resources(r, id, f, order)
        \/ LinkLoop(r)
        \/ TaskFails(r)
        \/ TaskEnds(r)

LinkSpec == Init /\ [][LinkNext]_vars

(***************************************************************************)
(* Spec: one pipeline run.                                                 *)
(***************************************************************************)
PipelineProviders == { f \in Providers : f[5] \in {"none", "raise"} }
PipelineWebs == { w \in Webs : w["acme.com/ir"] \in {"ok", "notab"} }

Next ==
    \E r \in {1} :
        \/ /\ phase[r] = "idle"
           /\ \E id \in {1, NoCompany}, f \in PipelineProviders : process_company(r, id, f)
        \/ DiscoveryUnits(r)
        \/ DiscoveryJoin(r)
        \/ LinkLoop(r)
        \/ /\ phase[r] = "discovered"
           /\ \E q \in Queues(discovered_urls[r]), w \in PipelineWebs :
                    scrape_discovered_urls(r, q, w)
        \/ ScrapeUnits(r)
        \/ ScrapeOrchestrator(r)
        \/ \E resp \in Responses : extract_aum(r, resp)
        \/ ExtractionAgent(r)
        \/ TaskFails(r)

Spec == Init /\ [][Next]_vars

(***************************************************************************)
(* FairSpec: the run under the scheduling of the event loop.  A task that  *)
(* is ready is run, so a step of the orchestrator or of a limiter that     *)
(* stays possible is taken.  Every browser operation, pacing delay and     *)
(* call of the completion provider returns or raises, so a unit or agent   *)
(* that waits for one leaves that position.                                *)
(***************************************************************************)
Begin(r) ==
    /\ phase[r] = "idle"
    /\ \E id \in {1, NoCompany}, f \in PipelineProviders : process_company(r, id, f)

BeginScrape(r) ==
    /\ phase[r] = "discovered"
    /\ \E q \in Queues(discovered_urls[r]), w \in PipelineWebs :
            scrape_discovered_urls(r, q, w)

DiscoveryLimiter(r) ==
    \E q \in Queries : DiscoveryAcquire(r, q) \/ DiscoveryRelease(r, q)

\* duckduckgo_search has returned or raised in some unit
SearchReturns(r) ==
    \E q \in Queries :
        /\ phase[r] = "discovery"
        /\ dpc[r][q] = "searching"
        /\ dpc' = [dpc EXCEPT ![r][q] = "sleeping"]

FetchLimiter(r) ==
    \E k \in Units(r) : ScrapeAcquire(r, k) \/ NewTab(r, k) \/ ScrapeRelease(r, k)

\* scrape_single_url has returned in some unit
FetchReturns(r) ==
    \E k \in Units(r) :
        /\ UnitsAlive(r)
        /\ spc[r][k] = "scraping"
        /\ spc' = [spc EXCEPT ![r][k] = "sleeping"]

\* the agent has been entered, the provider has answered or raised, the
\* response has been parsed
AgentMoves(r) ==
    \/ /\ phase[r] = "scraped"
       /\ phase' = [phase EXCEPT ![r] = "extracting"]
    \/ /\ phase[r] = "extracting"
       /\ \E to \in {"parsing", "done"} : phase' = [phase EXCEPT ![r] = to]
    \/ /\ phase[r] = "parsing"
       /\ \E to \in {"done", "raised"} : phase' = [phase EXCEPT ![r] = to]

FairSpec ==
    /\ Spec
    /\ WF_vars(Begin(1))
    /\ WF_vars(DiscoveryLimiter(1)) /\ WF_dpc(SearchReturns(1))
    /\ WF_vars(DiscoveryJoin(1)) /\ WF_vars(LinkLoop(1))
    /\ WF_vars(BeginScrape(1))
    /\ WF_vars(FetchLimiter(1)) /\ WF_spc(FetchReturns(1))
    /\ WF_vars(ScrapeOrchestrator(1))
    /\ WF_phase(AgentMoves(1))
    /\ WF_vars(TaskFails(1))

(***************************************************************************)
(* Function specifications: one call of a function of the program.  The    *)
(* argument is drawn when the specification starts; the call returns once. *)
(***************************************************************************)
pipeline_vars == <<run_vars, discovery_vars, scrape_vars, session, tables, extract_vars>>

Returns(v) ==
    /\ ret = <<>>
    /\ ret' = <<v>>
    /\ UNCHANGED <<arg, sessionmaker, scope, engine, closer, conn, pipeline_vars, upload_vars>>

\* categorize_search_results(results, categories) on empty category sets
ResultTitles == {"Acme", "Acme report", "acme news", "ACME REPORT", "Acme report news"}
ResultUrls ==
    {"acme.com/ir", "linkedin.com/acme", "LinkedIn.com/acme", "instagram.com/acme",
     "instagram.com/stories/acme", "instagram.com/reel/acme", "twitter.com/acme",
     "x.com/acme", "facebook.com/acme", "instagram.com/linkedin.com", "facebook.com/x.com",
     "netflix.com/acme"}
\* every url under a plain title, and every title on a corporate url, on a
\* platform url and on a url whose capitals hide the platform
Results ==
    [title : {"Acme"}, url : ResultUrls] \cup
    [title : ResultTitles, url : {"acme.com/ir", "facebook.com/acme", "LinkedIn.com/acme"}]
ResultLists == UNION { [1..n -> Results] : n \in 0..MaxResults }

CategorizeInit == PipelineInit /\ arg \in ResultLists /\ ret = <<>>
CategorizeNext == Returns(categorize_search_results(arg, EmptyMapping))
CategorizeSpec == CategorizeInit /\ [][CategorizeNext]_vars

\* extract_relevant_chunks(html_content) on a parsed document
Tags ==
    { Tag("p", "AUM: 1 bilhão", 500),
      Tag("p", "AUM: 2 bilhões", 850),
      Tag("span", "Total de R$ 2,3 bi", 851),
      Tag("span", "  Patrimônio sob gestão \n\n  US$ 1,5 mi \n", 1),
      Tag("p", "Assets Under Management", 1351),
      Tag("div", "AUM R$ 2,3 bi", 1),
      Tag("p", "Some random text here.", 1),
      Tag("span", "R$ 5 bi", 1),
      Tag("p", "R$ 2,3", 1) }

Documents == UNION { [1..n -> Tags] : n \in 0..MaxTags }

ChunksInit == PipelineInit /\ arg \in Documents /\ ret = <<>>
ChunksNext == Returns(extract_relevant_chunks(arg))
ChunksSpec == ChunksInit /\ [][ChunksNext]_vars

\* normalize_aum_value(raw_value) on the fixtures of the tests and on every
\* text of up to MaxLen characters of a small alphabet
Fixtures ==
    {"R$ 2,3 bi", "$500 million", "1.5 trilhão", "US$ 100,5 mil", "€ 123.456,78", "25b",
     "Invalid Text"}
Alphabet == {"1", "0", ".", ",", "b", "I", "$", " ", "sup2"}
RawValues ==
    {Chars(f) : f \in Fixtures} \cup UNION { [1..n -> Alphabet] : n \in 0..MaxLen }

NormalizeInit == PipelineInit /\ arg \in RawValues /\ ret = <<>>
NormalizeNext == Returns(normalize_aum_value(arg))
NormalizeSpec == NormalizeInit /\ [][NormalizeNext]_vars

\* truncate_prompt_if_needed(prompt, max_tokens) on short prompts, with low
\* ceilings and with the ceiling extract_aum passes
MaxCeiling == 2
Ceilings == 0..MaxCeiling \cup {MAX_TOKENS}
Prompts == UNION { [1..n -> PromptChars \ {"fffd"}] : n \in 0..MaxLen }
TruncateInit ==
    /\ PipelineInit
    /\ arg \in { <<[prompt |-> p, max_tokens |-> m]>> : p \in Prompts, m \in Ceilings }
    /\ ret = <<>>
TruncateNext == Returns(truncate_prompt_if_needed(arg[1].prompt, arg[1].max_tokens))
TruncateSpec == TruncateInit /\ [][TruncateNext]_vars

\* scrape_single_url(tab, url, category, company_id) on an open tab, for
\* every category and the category name "x" of the scroll list
ScrapeCategories == CategorySet \cup {"x"}
TabBehaviours == {"ok", "empty", "timeout", "noscript"}
ScrapeCalls == [url : Urls, category : ScrapeCategories, behaviour : TabBehaviours]
ScrapeOneInit == PipelineInit /\ arg \in { <<c>> : c \in ScrapeCalls } /\ ret = <<>>
ScrapeOneNext ==
    Returns(scrape_single_url(arg[1].url, arg[1].category, 1, Behaviour(arg[1].behaviour)))
ScrapeOneSpec == ScrapeOneInit /\ [][ScrapeOneNext]_vars

(***************************************************************************)
(* ScrapeSpec: one call of scrape_discovered_urls in run 1, on a mapping   *)
(* discover_company_resources returns.  The links of the company are in    *)
(* the table already (an earlier run of the task committed them), so the   *)
(* link loop has added nothing and the discovery commit has gone through,  *)
(* also for a result page that lists one url under two titles.             *)
(***************************************************************************)
ScrapeMappings ==
    { categorize_search_results(duckduckgo_search(answer, companies[1]), EmptyMapping) :
        answer \in Pages \cup {"none"} }

EarlierLinks ==
    << CompanyLinkRow(1, "corporate", "acme.com"),
       CompanyLinkRow(1, "linkedin", "linkedin.com/acme"),
       CompanyLinkRow(1, "facebook", "facebook.com/acme"),
       CompanyLinkRow(1, "news", "g1.com/acme"),
       CompanyLinkRow(1, "reports", "acme.com/ir") >>

ScrapeInit ==
    /\ phase = [r \in Runs |-> IF r = 1 THEN "discovered" ELSE "idle"]
    /\ company_id = [r \in Runs |-> IF r = 1 THEN 1 ELSE NoCompany]
    /\ provider = [r \in Runs |-> NoProvider]
    /\ web = [r \in Runs |-> NoWeb]
    /\ rerun = [r \in Runs |-> r = 1]
    /\ \E mapping \in ScrapeMappings :
            discovered_urls = [r \in Runs |-> IF r = 1 THEN mapping ELSE EmptyMapping]
    /\ dsem = [r \in Runs |-> DiscoverySemaphore]
    /\ dpc = [r \in Runs |-> [q \in Queries |-> IF r = 1 THEN "done" ELSE "queued"]]
    /\ checked = [r \in Runs |-> {}]
    /\ urls_to_scrape = [r \in Runs |-> <<>>]
    /\ ssem = [r \in Runs |-> ScrapeSemaphore]
    /\ spc = [r \in Runs |-> <<>>]
    /\ logs_to_add = [r \in Runs |-> <<>>]
    /\ scraped_content = [r \in Runs |-> <<>>]
    /\ session = [r \in Runs |-> <<>>]
    /\ company_links = EarlierLinks
    /\ search_results = <<>>
    /\ scrape_logs = <<>>
    /\ committed_runs = {}
    /\ tasks = 1
    /\ scraped_pages = [r \in Runs |-> <<>>]
    /\ content = [r \in Runs |-> <<>>]
    /\ response = [r \in Runs |-> "none"]
    /\ calls = [r \in Runs |-> 0]
    /\ result_text = [r \in Runs |-> <<>>]
    /\ aum_snapshots = <<>>
    /\ usage = <<>>
    /\ sessionmaker = "made"
    /\ scope = [r \in Runs |-> NoScope]
    /\ engine = "made"
    /\ closer = [r \in Runs |-> NoClose]
    /\ conn = [r \in Runs |-> NoScope]
    /\ company_rows = <<>>
    /\ dispatched = <<>>
    /\ upload = [r \in Runs |-> NoUpload]
    /\ arg = <<>>
    /\ ret = <<>>

ScrapeNext ==
    \E r \in {1} :
        \/ /\ phase[r] = "discovered"
           /\ \E q \in Queues(discovered_urls[r]), w \in PipelineWebs :
                    scrape_discovered_urls(r, q, w)
        \/ ScrapeUnits(r)
        \/ ScrapeOrchestrator(r)
        \/ TaskFails(r)

ScrapeSpec == ScrapeInit /\ [][ScrapeNext]_vars

(***************************************************************************)
(* ExtractSpec: one call of extract_aum in run 1, on a list of pages       *)
(* scrape_discovered_urls returns.  A page is served by a fetch that went  *)
(* through; its markup holds a paragraph about the assets or none.         *)
(***************************************************************************)
Served(markup) ==
    [new_tab |-> TRUE, raises |-> "none", error |-> "", page_source |-> markup]

ScrapedPages ==
    [url : {"acme.com/ir"}, category : {"reports"},
     content : {"<p>AUM R$ 2,3 bi</p>", "<p>feed</p>"}] \cup
    [url : {"linkedin.com/acme"}, category : {"linkedin"},
     content : {"<p>AUM R$ 2,3 bi</p>", "<p>feed</p>"}]

MaxPages == 2
PageLists ==
    { pages \in UNION { [1..n -> ScrapedPages] : n \in 0..MaxPages } :
        \A i, j \in DOMAIN pages : pages[i].url = pages[j].url => i = j }

SuccessLogs(pages) ==
    [i \in DOMAIN pages |->
        scrape_single_url(pages[i].url, pages[i].category, 1,
                          Served(pages[i].content)).log_entry]

ExtractInit ==
    /\ phase = [r \in Runs |-> IF r = 1 THEN "scraped" ELSE "idle"]
    /\ company_id = [r \in Runs |-> IF r = 1 THEN 1 ELSE NoCompany]
    /\ provider = [r \in Runs |-> NoProvider]
    /\ web = [r \in Runs |-> NoWeb]
    /\ rerun = [r \in Runs |-> FALSE]
    /\ discovered_urls = [r \in Runs |-> EmptyMapping]
    /\ dsem = [r \in Runs |-> DiscoverySemaphore]
    /\ dpc = [r \in Runs |-> [q \in Queries |-> IF r = 1 THEN "done" ELSE "queued"]]
    /\ checked = [r \in Runs |-> {}]
    /\ urls_to_scrape = [r \in Runs |-> <<>>]
    /\ ssem = [r \in Runs |-> ScrapeSemaphore]
    /\ spc = [r \in Runs |-> <<>>]
    /\ \E pages \in PageLists :
            /\ scraped_content = [r \in Runs |-> IF r = 1 THEN pages ELSE <<>>]
            /\ logs_to_add = [r \in Runs |-> IF r = 1 THEN SuccessLogs(pages) ELSE <<>>]
            /\ scrape_logs = SuccessLogs(pages)
    /\ session = [r \in Runs |-> <<>>]
    /\ company_links = <<>>
    /\ search_results = <<>>
    /\ committed_runs = {}
    /\ tasks = 1
    /\ scraped_pages = [r \in Runs |-> <<>>]
    /\ content = [r \in Runs |-> <<>>]
    /\ response = [r \in Runs |-> "none"]
    /\ calls = [r \in Runs |-> 0]
    /\ result_text = [r \in Runs |-> <<>>]
    /\ aum_snapshots = <<>>
    /\ usage = <<>>
    /\ sessionmaker = "made"
    /\ scope = [r \in Runs |-> NoScope]
    /\ engine = "made"
    /\ closer = [r \in Runs |-> NoClose]
    /\ conn = [r \in Runs |-> NoScope]
    /\ company_rows = <<>>
    /\ dispatched = <<>>
    /\ upload = [r \in Runs |-> NoUpload]
    /\ arg = <<>>
    /\ ret = <<>>

ExtractNext ==
    \E r \in {1} :
        \/ \E resp \in Responses : extract_aum(r, resp)
        \/ ExtractionAgent(r)
        \/ TaskFails(r)

ExtractSpec == ExtractInit /\ [][ExtractNext]_vars

(***************************************************************************)
(* AsyncDbSessionManager.session() and close().  The body of an            *)
(* `async with manager.session()` block returns or raises; an exception    *)
(* class is a subclass of Exception or, like asyncio.CancelledError and     *)
(* KeyboardInterrupt, of BaseException only.  rollback() and close() of    *)
(* the session are awaited, so the blocks of two tasks interleave there.   *)
(***************************************************************************)
Exceptions == {"SQLAlchemyError", "ValueError"}
BaseExceptions == {"CancelledError", "KeyboardInterrupt"}
BlockOutcomes == {"returns"} \cup Exceptions \cup BaseExceptions

\* lines 45-50: the guard, the session is made and yielded to the block
session_enter(r) ==
    /\ scope[r].pc = "idle"
    /\ IF sessionmaker = "none"
       THEN scope' = [scope EXCEPT ![r].pc = "exited",
                                   ![r].raised = <<"DatabaseSessionManager is not initialized">>]
       ELSE scope' = [scope EXCEPT ![r].pc = "block"]
    /\ UNCHANGED <<arg, ret, sessionmaker, engine, closer, conn, pipeline_vars, upload_vars>>

\* (a manager whose except clause is never entered)
block_ends_NoExcept(r, outcome) ==
    /\ scope[r].pc = "block"
    /\ scope' = [scope EXCEPT ![r].block = outcome, ![r].pc = "finally"]
    /\ UNCHANGED <<arg, ret, sessionmaker, engine, closer, conn, pipeline_vars, upload_vars>>

\* the block ends; `except Exception` (line 51) takes a subclass of
\* Exception, anything else goes to the finally clause
block_ends(r, outcome) ==
    /\ scope[r].pc = "block"
    /\ scope' = [scope EXCEPT ![r].block = outcome,
                              ![r].pc = IF outcome \in Exceptions THEN "except" ELSE "finally"]
    /\ UNCHANGED <<arg, ret, sessionmaker, engine, closer, conn, pipeline_vars, upload_vars>>

\* lines 52-53: await session.rollback(), then raise
session_rollback(r) ==
    /\ scope[r].pc = "except"
    /\ scope' = [scope EXCEPT ![r].called = Append(@, "rollback"), ![r].pc = "finally"]
    /\ UNCHANGED <<arg, ret, sessionmaker, engine, closer, conn, pipeline_vars, upload_vars>>

\* lines 54-55: await session.close(); the exception of the block, if
\* any, goes on to the caller
session_close(r) ==
    /\ scope[r].pc = "finally"
    /\ scope' = [scope EXCEPT ![r].called = Append(@, "close"),
                              ![r].pc = "exited",
                              ![r].raised = IF scope[r].block = "returns" THEN <<>>
                                            ELSE <<scope[r].block>>]
    /\ UNCHANGED <<arg, ret, sessionmaker, engine, closer, conn, pipeline_vars, upload_vars>>

NotInitialized == "DatabaseSessionManager is not initialized"

\* close() lines 24-26: the guard, then engine.dispose() is awaited
close_begin(r) ==
    /\ closer[r].pc = "idle"
    /\ IF engine = "none"
       THEN closer' = [closer EXCEPT ![r].pc = "exited", ![r].raised = <<NotInitialized>>]
       ELSE closer' = [closer EXCEPT ![r].pc = "disposing", ![r].disposed = @ + 1]
    /\ UNCHANGED <<arg, ret, sessionmaker, scope, engine, conn, pipeline_vars, upload_vars>>

\* (a close() that drops the engine and keeps the sessionmaker)
close_end_KeepsSessionmaker(r) ==
    /\ closer[r].pc = "disposing"
    /\ closer' = [closer EXCEPT ![r].pc = "exited"]
    /\ engine' = "none"
    /\ UNCHANGED <<arg, ret, sessionmaker, scope, conn, pipeline_vars, upload_vars>>

\* close() lines 28-29: dispose has returned, engine and sessionmaker are
\* set to None
close_end(r) ==
    /\ closer[r].pc = "disposing"
    /\ closer' = [closer EXCEPT ![r].pc = "exited"]
    /\ engine' = "none"
    /\ sessionmaker' = "none"
    /\ UNCHANGED <<arg, ret, scope, conn, pipeline_vars, upload_vars>>

\* connect() lines 33-38: the guard, engine.begin() opens a connection in a
\* transaction and it is yielded to the block
connect_enter(r) ==
    /\ conn[r].pc = "idle"
    /\ IF engine = "none"
       THEN conn' = [conn EXCEPT ![r].pc = "exited", ![r].raised = <<NotInitialized>>]
       ELSE conn' = [conn EXCEPT ![r].pc = "block", ![r].called = <<"begin">>]
    /\ UNCHANGED <<arg, ret, sessionmaker, scope, engine, closer, pipeline_vars, upload_vars>>

\* the block ends; `except Exception` (line 39) takes a subclass of Exception
connect_block_ends(r, outcome) ==
    /\ conn[r].pc = "block"
    /\ conn' = [conn EXCEPT ![r].block = outcome,
                            ![r].pc = IF outcome \in Exceptions THEN "except" ELSE "finally"]
    /\ UNCHANGED <<arg, ret, sessionmaker, scope, engine, closer, pipeline_vars, upload_vars>>

\* lines 40-41: await connection.rollback(), then raise
connection_rollback(r) ==
    /\ conn[r].pc = "except"
    /\ conn' = [conn EXCEPT ![r].called = Append(@, "rollback"), ![r].pc = "finally"]
    /\ UNCHANGED <<arg, ret, sessionmaker, scope, engine, closer, pipeline_vars, upload_vars>>

\* the `async with self._engine.begin()` statement (line 36) is left: the
\* transaction ends and what the block raised goes on to the caller
connect_exit(r) ==
    /\ conn[r].pc = "finally"
    /\ conn' = [conn EXCEPT ![r].called = Append(@, "end"),
                            ![r].pc = "exited",
                            ![r].raised = IF conn[r].block = "returns" THEN <<>>
                                          ELSE <<conn[r].block>>]
    /\ UNCHANGED <<arg, ret, sessionmaker, scope, engine, closer, pipeline_vars, upload_vars>>

\* the session() blocks of two tasks and one close() of the manager
SessionNext ==
    \/ \E r \in Runs :
        \/ session_enter(r)
        \/ \E outcome \in BlockOutcomes : block_ends(r, outcome)
        \/ session_rollback(r)
        \/ session_close(r)
    \/ \E r \in {1} : close_begin(r) \/ close_end(r)

\* one session() block, one connect() block and two calls of close()
ManagerNext ==
    \/ \E r \in {1} :
        \/ session_enter(r)
        \/ \E outcome \in BlockOutcomes : block_ends(r, outcome)
        \/ session_rollback(r)
        \/ session_close(r)
        \/ connect_enter(r)
        \/ \E outcome \in BlockOutcomes : connect_block_ends(r, outcome)
        \/ connection_rollback(r)
        \/ connect_exit(r)
    \/ \E r \in Runs : close_begin(r) \/ close_end(r)

ManagerSpec == Init /\ [][ManagerNext]_vars

SessionSpec == Init /\ [][SessionNext]_vars

(***************************************************************************)
(* api/endpoints.py upload_companies_csv.  Each request has its own        *)
(* session; the SELECT, the commit and the refresh are awaited, so the     *)
(* handlers of two requests interleave there.  companies.name carries an   *)
(* index and no unique constraint.                                         *)
(***************************************************************************)
MaxRows == 2
\* the "Empresa" value of a row; "" stands for an empty or missing value
Names == {"Acme", "Other", ""}
Files == UNION { [1..n -> Names] : n \in 0..MaxRows }

manager_vars == <<sessionmaker, scope, engine, closer, conn>>

IdsOf(name) == { i \in 1..Len(company_rows) : company_rows[i] = name }

\* lines 23-27: the file is read and decoded, the counter starts at 0
upload_companies_csv(r, file) ==
    /\ upload[r].pc = "idle"
    /\ upload' = [upload EXCEPT ![r].pc = "next", ![r].file = file]
    /\ UNCHANGED <<company_rows, dispatched, arg, ret, manager_vars, pipeline_vars>>

\* lines 29-34: the next row; a row without a name is skipped, else the
\* SELECT is sent; after the last row the response is returned (line 44)
upload_row(r) ==
    /\ upload[r].pc = "next"
    /\ IF upload[r].row = Len(upload[r].file)
       THEN upload' = [upload EXCEPT ![r].pc = "returned",
                                     ![r].response = <<upload[r].tasks_dispatched>>]
       ELSE upload' = [upload EXCEPT ![r].row = @ + 1,
                                     ![r].pc = IF upload[r].file[upload[r].row + 1] = ""
                                               THEN "next" ELSE "selecting"]
    /\ UNCHANGED <<company_rows, dispatched, arg, ret, manager_vars, pipeline_vars>>

\* lines 34-38: the SELECT returns the committed rows of that name;
\* scalar_one_or_none raises MultipleResultsFound on two rows; on none the
\* Company is added and the commit sent
upload_select(r) ==
    /\ upload[r].pc = "selecting"
    /\ LET found == IdsOf(upload[r].file[upload[r].row])
       IN  upload' = [upload EXCEPT ![r].pc =
                        IF Cardinality(found) > 1 THEN "raised"
                        ELSE IF found # {} THEN "next" ELSE "committing"]
    /\ UNCHANGED <<company_rows, dispatched, arg, ret, manager_vars, pipeline_vars>>

\* line 38: the commit inserts the row; the table gives it the next id
upload_commit(r) ==
    /\ upload[r].pc = "committing"
    /\ company_rows' = Append(company_rows, upload[r].file[upload[r].row])
    /\ upload' = [upload EXCEPT ![r].pc = "refreshing", ![r].id = Len(company_rows) + 1]
    /\ UNCHANGED <<dispatched, arg, ret, manager_vars, pipeline_vars>>

\* lines 39-42: the refresh returns, the task is dispatched and counted
upload_dispatch(r) ==
    /\ upload[r].pc = "refreshing"
    /\ dispatched' = Append(dispatched, upload[r].id)
    /\ upload' = [upload EXCEPT ![r].pc = "next",
                                ![r].tasks_dispatched = @ + 1,
                                ![r].sent = Append(@, upload[r].id)]
    /\ UNCHANGED <<company_rows, arg, ret, manager_vars, pipeline_vars>>

UploadNext ==
    \E r \in Runs :
        \/ \E file \in Files : upload_companies_csv(r, file)
        \/ upload_row(r)
        \/ upload_select(r)
        \/ upload_commit(r)
        \/ upload_dispatch(r)

UploadSpec == Init /\ [][UploadNext]_vars

(***************************************************************************)
(* Properties.                                                             *)
(***************************************************************************)
InFlightSearch(r) == {q \in Queries : dpc[r][q] \in {"searching", "sleeping"}}
InFlightFetch(r) == {k \in Units(r) : spc[r][k] \in {"opening", "scraping", "sleeping"}}

\* C1: at most 4 search units hold the discovery limiter and at most 4 fetch
\* units hold the scrape limiter; each limiter is a pool of its own, whose
\* free permits and holders add up to 4.
C1_LimiterBound ==
    \A r \in Runs :
        /\ Cardinality(InFlightSearch(r)) <= 4
        /\ Cardinality(InFlightFetch(r)) <= 4
        /\ dsem[r] + Cardinality(InFlightSearch(r)) = 4
        /\ ssem[r] + Cardinality(InFlightFetch(r)) = 4

\* the scrape limiter is exhausted and a fetch unit waits for a permit
C1_LimiterBinding ==
    \E r \in Runs :
        /\ Cardinality(InFlightFetch(r)) = 4
        /\ \E k \in Units(r) : spc[r][k] = "queued"

NoSharedUrl(rows) ==
    \A i, j \in 1..Len(rows) : i # j => rows[i].url # rows[j].url

\* C2: no two CompanyLink rows that discovery inserts (adds to its session)
\* or has inserted (committed) share a url; a url that a run has put into
\* two category sets is inserted at most once by that run.
C2_UrlInsertedOnce ==
    \A r \in Runs : NoSharedUrl(company_links \o RowsOf(session[r], "company_links"))

\* C3: a run that repeats a committed run of its company, with the same
\* answers of the search provider, inserts no CompanyLink row and its
\* commit is accepted: it leaves company_links as the first run left it.
C3_RerunInsertsNothing ==
    \A r \in Runs :
        rerun[r] => /\ RowsOf(session[r], "company_links") = <<>>
                    /\ phase[r] \notin {"raised", "failed"}

MappingUrls(r) == UNION {discovered_urls[r][c] : c \in CategorySet}

\* a repeated run with discovered urls has committed
C3_RerunCommitted ==
    \E r \in Runs :
        /\ rerun[r]
        /\ phase[r] = "discovered"
        /\ MappingUrls(r) # {}
        /\ \A u \in MappingUrls(r) : LinkExists(u)

\* C4: when two runs, each with its own session, discover the same unseen
\* url concurrently, at most one CompanyLink row for it is ever committed.
C4_CommittedUrlUnique == NoSharedUrl(company_links)

\* both runs found the url unseen; one commit was accepted, the other raised
C4_RaceLost ==
    \E r1, r2 \in Runs :
        /\ r1 # r2
        /\ phase[r1] = "discovered"
        /\ phase[r2] = "raised"
        /\ \E i \in 1..Len(company_links) :
            /\ company_links[i].company_id = company_id[r1]
            /\ company_links[i].url \in MappingUrls(r2)

ScrapeEnded(r) == phase[r] \in {"scraped", "extracting", "parsing", "done", "failed"}

LogsOf(r) == SelectSeq(scrape_logs, LAMBDA row : row.company_id = company_id[r])

\* C5: when a scrape run has ended, the ScrapeLog rows persisted are as many
\* as the fetch attempts, one per queued url.
C5_OneLogPerAttempt ==
    \A r \in Runs : ScrapeEnded(r) => Len(LogsOf(r)) = Len(urls_to_scrape[r])

UrlsOf(rows) == [i \in 1..Len(rows) |-> rows[i].url]

\* C6: the list scrape_discovered_urls returns has exactly one entry per
\* fetch whose log says SUCCESS and none for a fetch whose log says FAILED,
\* whatever the markup.
C6_ReturnedIffSuccess ==
    \A r \in Runs :
        phase[r] = "scraped" =>
            UrlsOf(scraped_content[r])
                = UrlsOf(SelectSeq(logs_to_add[r], LAMBDA row : row.status = "SUCCESS"))

\* an operation that scrape_single_url performs for the category raises
StepRaises(category, b) ==
    \/ b.raises \in {"enable_network_events", "go_to", "page_source"}
    \/ b.raises = "execute_script" /\ category \in {"instagram", "linkedin", "twitter"}

\* what the claim says scrape_single_url returns
ReturnsAsClaimed(got, category, b) ==
    IF StepRaises(category, b)
    THEN /\ got.content = <<>>
         /\ got.log_entry.status = "FAILED"
         /\ got.log_entry.error_msg = <<b.error>>
         /\ got.log_entry.content_length = Len(b.error)
    ELSE /\ got.content = <<b.page_source>>
         /\ got.log_entry.status = "SUCCESS"
         /\ got.log_entry.content_length = Len(b.page_source)

\* C7: scrape_single_url never raises: for every queued item, a step that
\* raises with message m gives (None, FAILED log with error_msg m and
\* content_length len(m)), and otherwise (markup, SUCCESS log with
\* content_length len(markup)); the log entries kept are these.
C7_ScrapeSingleUrlTotal ==
    \A r \in Runs :
        /\ \A k \in Units(r) :
            LET item == urls_to_scrape[r][k]
                b == Behaviour(web[r][item.url])
            IN  /\ ReturnsAsClaimed(
                        scrape_single_url(item.url, item.category, company_id[r], b),
                        item.category, b)
                /\ spc[r][k] = "raised" => ~b.new_tab
        /\ \A i \in 1..Len(logs_to_add[r]) :
            \E k \in Units(r) :
                LET item == urls_to_scrape[r][k]
                    b == Behaviour(web[r][item.url])
                IN  /\ item.url = logs_to_add[r][i].url
                    /\ spc[r][k] \in {"sleeping", "done", "cancelled"}
                    /\ ReturnsAsClaimed(
                            [content |-> IF StepRaises(item.category, b)
                                         THEN <<>> ELSE <<b.page_source>>,
                             log_entry |-> logs_to_add[r][i]],
                            item.category, b)

\* one fetch has failed with "Page timeout" and another has succeeded
C7_BothOutcomes ==
    \E r \in Runs :
        /\ \E i \in 1..Len(logs_to_add[r]) :
            /\ logs_to_add[r][i].status = "FAILED"
            /\ logs_to_add[r][i].content_length = 12
        /\ \E i \in 1..Len(logs_to_add[r]) :
            /\ logs_to_add[r][i].status = "SUCCESS"
            /\ logs_to_add[r][i].content_length > 0

\* the queries of run r whose search has returned or raised
Answered(r) == {q \in Queries : dpc[r][q] \in {"sleeping", "done"}}

\* what the answers of the queries in qs put into the category sets acc
RECURSIVE Contribution(_, _, _)
Contribution(r, qs, acc) ==
    IF qs = {} THEN acc
    ELSE LET q == CHOOSE p \in qs : TRUE
         IN  Contribution(r, qs \ {q},
                categorize_search_results(
                    duckduckgo_search(provider[r][q], companies[company_id[r]]), acc))

RowsOfQuery(r, q) ==
    SelectSeq(session[r] \o search_results,
              LAMBDA row : row.table = "search_results" /\ row.query = q)

\* C8: in discovery a query whose search raises or finds no result element
\* contributes no SearchResult row and no categorized url, every other
\* query is still issued and categorized, and discovery then stages its
\* CompanyLink rows, commits once and returns the mapping: a run leaves
\* discovery only by returning, so a run that raised did so in a fetch unit
\* or after the completion provider was called.
C8_DiscoveryReturns ==
    \A r \in {1} :
        /\ phase[r] \in {"discovery", "linking", "discovered", "raised"} =>
            /\ \A q \in Queries :
                provider[r][q] \in {"raise", "none"} => RowsOfQuery(r, q) = <<>>
            /\ discovered_urls[r] =
                    Contribution(r, {q \in Answered(r) : provider[r][q] \in Pages},
                                 EmptyMapping)
        /\ phase[r] \notin {"idle", "done", "discovery"} => Answered(r) = Queries
        /\ phase[r] \in {"raised", "failed"} =>
                \/ \E k \in Units(r) : spc[r][k] = "raised"
                \/ calls[r] > 0

\* the part of C8 that the code keeps: a failed or empty query adds nothing
\* and aborts nothing, the join waits for all eight queries, and the only
\* way discovery fails to return is its commit refusing a url that the
\* results put into two category sets.
C8_QueryFailureIsolated ==
    \A r \in {1} :
        /\ phase[r] \in {"discovery", "linking", "discovered", "raised"} =>
            /\ \A q \in Queries :
                provider[r][q] \in {"raise", "none"} => RowsOfQuery(r, q) = <<>>
            /\ discovered_urls[r] =
                    Contribution(r, {q \in Answered(r) : provider[r][q] \in Pages},
                                 EmptyMapping)
        /\ phase[r] \notin {"idle", "done", "discovery"} => Answered(r) = Queries
        /\ phase[r] \in {"raised", "failed"} =>
                \/ \E c1, c2 \in CategorySet :
                        c1 # c2 /\ discovered_urls[r][c1] \cap discovered_urls[r][c2] # {}
                \/ \E k \in Units(r) : spc[r][k] = "raised"
                \/ calls[r] > 0
        /\ phase[r] = "discovered" => \A u \in MappingUrls(r) : LinkExists(u)

\* a query has raised, another has found results, and discovery has
\* committed their links and returned
C8_FailedQueryAndReturn ==
    \E r \in {1} :
        /\ phase[r] = "discovered"
        /\ \E q \in Queries : provider[r][q] = "raise"
        /\ MappingUrls(r) # {}
        /\ Len(company_links) = Cardinality(MappingUrls(r))

\* C9: a failure in one fetch unit, at any step, cancels no sibling: when
\* the scrape run has ended no unit has been cancelled and every url whose
\* own page session opened has its ScrapeLog row persisted.
C9_SiblingsSurvive ==
    \A r \in Runs :
        /\ \A k \in Units(r) : spc[r][k] # "cancelled"
        /\ ScrapeEnded(r) =>
            \A k \in Units(r) :
                Behaviour(web[r][urls_to_scrape[r][k].url]).new_tab =>
                    \E i \in 1..Len(scrape_logs) :
                        scrape_logs[i].url = urls_to_scrape[r][k].url

DiscoveryUnitsLive(r) ==
    /\ phase[r] \in {"discovery", "linking"}
    /\ \E q \in Queries : dpc[r][q] # "done"

ScrapeUnitsLive(r) ==
    \E k \in Units(r) : spc[r][k] \in {"queued", "opening", "scraping", "sleeping"}

UnitsLive(r) == DiscoveryUnitsLive(r) \/ ScrapeUnitsLive(r)

\* the step adds rows to the session of run r
Stages(r) == Len(session'[r]) > Len(session[r])

Staged(r) == SubSeq(session'[r], Len(session[r]) + 1, Len(session'[r]))

\* the step commits rows
Commits ==
    <<company_links, search_results, scrape_logs>>'
        # <<company_links, search_results, scrape_logs>>

\* C10 as claimed: no step stages a row on the session or commits while a
\* unit of the phase is still running.
C10_NoWriteWhileUnitsRun ==
    [][\A r \in {1} : (Stages(r) \/ Commits) => ~UnitsLive(r)']_vars

\* C10: no commit, and no CompanyLink or ScrapeLog row staged, while a unit
\* of the phase is still running; the rows staged while units run are the
\* SearchResult rows that a search unit adds when its search returns.
C10_WritesAfterJoin ==
    [][\A r \in {1} :
            /\ Commits => ~UnitsLive(r)'
            /\ Stages(r) =>
                \/ ~UnitsLive(r)'
                \/ /\ \A i \in 1..Len(Staged(r)) : Staged(r)[i].table = "search_results"
                   /\ \E q \in Queries :
                        dpc[r][q] = "searching" /\ dpc'[r][q] = "sleeping"]_vars

\* SearchResult rows are pending while search units are still running
C10_StagedDuringSearch ==
    \E r \in {1} :
        /\ phase[r] = "discovery"
        /\ \E q \in Queries : dpc[r][q] \in {"queued", "searching"}
        /\ RowsOf(session[r], "search_results") # <<>>

\* the rules of the chain, in the order of the specification
RuleOrder ==
    <<"linkedin", "instagram", "twitter", "facebook", "reports", "news", "corporate">>

RuleMatches(rule, res) ==
    CASE rule = "linkedin" -> Contains(Chars(res.url), kw_linkedin)
      [] rule = "instagram" -> Contains(Chars(res.url), kw_instagram)
      [] rule = "twitter" ->
            Contains(Chars(res.url), kw_twitter) \/ Contains(Chars(res.url), kw_x)
      [] rule = "facebook" -> Contains(Chars(res.url), kw_facebook)
      [] rule = "reports" -> Search(REPORTS_KW, Lower(Chars(res.title)))
      [] rule = "news" -> Search(NEWS_KW, Lower(Chars(res.title)))
      [] rule = "corporate" -> TRUE

FirstRule(res) ==
    RuleOrder[CHOOSE i \in 1..Len(RuleOrder) :
                /\ RuleMatches(RuleOrder[i], res)
                /\ \A j \in 1..(i - 1) : ~RuleMatches(RuleOrder[j], res)]

\* the bucket the chain gives a result: none for an Instagram story or reel
Bucket(res) ==
    IF /\ FirstRule(res) = "instagram"
       /\ \/ Contains(Chars(res.url), kw_stories)
          \/ Contains(Chars(res.url), kw_reel)
    THEN "dropped"
    ELSE FirstRule(res)

C15_DisjointExhaustive ==
    ret # <<>> =>
        /\ \A c1, c2 \in CategorySet : c1 # c2 => ret[1][c1] \cap ret[1][c2] = {}
        /\ UNION {ret[1][c] : c \in CategorySet} = {arg[i].url : i \in DOMAIN arg}

\* position of a category in the priority list the specification gives
PriorityRank(category) ==
    CHOOSE i \in 1..7 :
        <<"reports", "corporate", "news", "linkedin", "facebook", "instagram",
          "twitter">>[i] = category

Dispatched(r, k) == spc[r][k] \in {"opening", "scraping", "sleeping", "done", "raised"}

\* C16: the fetch queue lists every url of every category set of the
\* mapping once, in category priority order reports, corporate, news,
\* linkedin, facebook, instagram, twitter; of two queued items the one of
\* the earlier category is earlier in the queue and acquires the limiter
\* no later than the other.
C16_QueueByPriority ==
    \A r \in Runs :
        (phase[r] \in {"scraping", "logging", "scraped"} \/ urls_to_scrape[r] # <<>>) =>
            /\ {urls_to_scrape[r][k] : k \in Units(r)} =
                    {it \in [url : Urls, category : CategorySet] :
                        it.url \in discovered_urls[r][it.category]}
            /\ \A i, j \in Units(r) :
                    /\ i # j => urls_to_scrape[r][i] # urls_to_scrape[r][j]
                    /\ PriorityRank(urls_to_scrape[r][i].category) <
                            PriorityRank(urls_to_scrape[r][j].category)
                        => /\ i < j
                           /\ Dispatched(r, j) => spc[r][i] # "queued"

\* a queue of five urls in five categories whose last item, a social page,
\* has acquired the limiter after a permit came back
C16_LastDispatched ==
    \E r \in Runs :
        /\ phase[r] = "scraping"
        /\ Len(urls_to_scrape[r]) = 5
        /\ urls_to_scrape[r][1].category = "reports"
        /\ urls_to_scrape[r][5].category = "facebook"
        /\ spc[r][5] = "opening"

\* the paragraphs of a document that match a pattern, stated on the text
IsAumText(text) ==
    text \in {"AUM: 1 bilhão", "AUM: 2 bilhões", "Total de R$ 2,3 bi",
              "  Patrimônio sob gestão \n\n  US$ 1,5 mi \n", "Assets Under Management",
              "AUM R$ 2,3 bi"}

Matching(doc) ==
    SelectSeq(doc, LAMBDA tag : tag.name \in {"p", "span"} /\ IsAumText(tag.text))

RECURSIVE SumTokens(_)
SumTokens(tags) == IF tags = <<>> THEN 0 ELSE Head(tags).tokens + SumTokens(Tail(tags))

\* the text a selected paragraph contributes
Fragment(text) ==
    IF text = "  Patrimônio sob gestão \n\n  US$ 1,5 mi \n"
    THEN Chars("Patrimônio sob gestão") \o <<"\n">> \o Chars("US$ 1,5 mi")
    ELSE Chars(text)

\* the longest prefix of the matching paragraphs whose tokens sum to at most 1350
BudgetPrefix(doc) ==
    LET m == Matching(doc)
        n == CHOOSE k \in 0..Len(m) :
                /\ SumTokens(SubSeq(m, 1, k)) <= 1350
                /\ \A j \in (k + 1)..Len(m) : SumTokens(SubSeq(m, 1, j)) > 1350
    IN  SubSeq(m, 1, n)

\* C17: extract_relevant_chunks returns, in document order, the longest
\* prefix of the matching fragments whose cumulative token count is at most
\* 1350; after the first matching fragment that does not fit no later
\* fragment is included, even one that would fit.
C17_BudgetPrefix ==
    ret # <<>> =>
        ret[1] = JoinLines([i \in 1..Len(BudgetPrefix(arg)) |->
                                Fragment(BudgetPrefix(arg)[i].text)])

\* a fragment that fits exactly is taken, the next one stops the selection
\* and a one-token fragment after it is left out
C17_StopsAtFirstOverflow ==
    /\ ret # <<>>
    /\ Len(arg) = 3
    /\ arg[1].tokens = 500 /\ arg[2].tokens = 851 /\ arg[3].tokens = 1
    /\ IsAumText(arg[3].text)
    /\ ret[1] = Chars("AUM: 1 bilhão")

\* C18: extract_relevant_chunks includes a p or span element only if its
\* text matches the AUM-keyword pattern or the monetary-value pattern: the
\* result is made of fragments of matching elements alone, in document
\* order, and is the empty string when the markup is empty or no element
\* matches.
C18_OnlyMatchingElements ==
    ret # <<>> =>
        /\ \E k \in 0..Len(Matching(arg)) :
                ret[1] = JoinLines([i \in 1..k |-> Fragment(Matching(arg)[i].text)])
        /\ Matching(arg) = <<>> => ret[1] = <<>>

\* a document whose first and last elements match nothing and whose middle
\* element, the only one returned, matches the monetary pattern alone
C18_MatchBetweenOthers ==
    /\ ret # <<>>
    /\ Len(arg) = 3
    /\ arg[1].text = "R$ 5 bi" /\ arg[3].text = "Some random text here."
    /\ arg[2].text = "Total de R$ 2,3 bi"
    /\ ret[1] = Chars("Total de R$ 2,3 bi")

\* the values the tests expect for the fixtures
Expected(f) ==
    CASE f = "R$ 2,3 bi" -> <<[m |-> 23, e |-> 8]>>
      [] f = "$500 million" -> <<[m |-> 5, e |-> 8]>>
      [] f = "1.5 trilhão" -> <<[m |-> 15, e |-> 11]>>
      [] f = "US$ 100,5 mil" -> <<[m |-> 1005, e |-> 2]>>
      [] f = "€ 123.456,78" -> <<[m |-> 12345678, e |-> 0 - 2]>>
      [] f = "25b" -> <<[m |-> 25, e |-> 9]>>
      [] f = "Invalid Text" -> <<>>

\* C19: normalize_aum_value returns 2.3e9 for "R$ 2,3 bi", 5.0e8 for
\* "$500 million", 1.5e12 for "1.5 trilhão", 1.005e5 for "US$ 100,5 mil",
\* 123456.78 for "€ 123.456,78", 2.5e10 for "25b" and null for "Invalid Text".
C19_Fixtures ==
    ret # <<>> => \A f \in Fixtures : arg = Chars(f) => ret[1] = Expected(f)

\* the call on the fixture with a currency sign, thousands points and a
\* decimal comma has returned 123456.78
C19_ThousandsFixture ==
    /\ arg = Chars("€ 123.456,78")
    /\ ret = <<(<<[m |-> 12345678, e |-> 0 - 2]>>)>>

\* the digits and points of a raw value after cleaning, and when float()
\* cannot read them
NumericPart(raw) ==
    SelectSeq(DecimalConvention(Strip(RemoveCoinSymbols(Lower(raw)))),
              LAMBDA c : str_isdigit(c) \/ c = ".")

Unparseable(np) ==
    \/ \A i \in 1..Len(np) : np[i] \notin Digits
    \/ Cardinality({i \in 1..Len(np) : np[i] = "."}) > 1
    \/ \E i \in 1..Len(np) : np[i] = "sup2"

\* C20: normalize_aum_value returns, for every string, a number or null;
\* null for every purely alphabetic string and for every string whose
\* numeric part cannot be parsed (empty, more than one decimal point), and
\* a number for every other string.
C20_Total ==
    ret # <<>> =>
        /\ \/ ret[1] = <<>>
           \/ Len(ret[1]) = 1 /\ ret[1][1].m \in Nat /\ ret[1][1].e \in Int
        /\ str_isalpha(Lower(arg)) => ret[1] = <<>>
        /\ Unparseable(NumericPart(arg)) <=> ret[1] = <<>>

\* the call on a text with two decimal points has returned null
C20_TwoPoints ==
    /\ arg = <<".", "1", ".">>
    /\ ret = <<(<<>>)>>

\* C11: process_company never lets an exception reach its dispatcher: no
\* run is ever left by an exception, whatever discovery, scraping, the
\* completion provider and the parsing of its response do.
C11_NeverPropagates ==
    \A r \in Runs : phase[r] \notin {"raised", "failed"}

\* the rows of a table that belong to the company id of run r
RowsFor(rows, r) == SelectSeq(rows, LAMBDA row : row.company_id = company_id[r])

\* C12: when the company id of the task has no Company row none of the
\* three phases runs: no search is issued, no url is fetched, the
\* completion provider is not called and no SearchResult, CompanyLink,
\* ScrapeLog, AUMSnapshot or usage row is staged or written for that id.
C12_MissingCompanyDoesNothing ==
    \A r \in Runs :
        (phase[r] # "idle" /\ company_id[r] \notin DOMAIN companies) =>
            /\ phase[r] = "done"
            /\ \A q \in Queries : dpc[r][q] = "queued"
            /\ urls_to_scrape[r] = <<>> /\ spc[r] = <<>> /\ logs_to_add[r] = <<>>
            /\ calls[r] = 0
            /\ session[r] = <<>>
            /\ RowsFor(search_results \o company_links \o scrape_logs
                        \o aum_snapshots \o usage, r) = <<>>

\* a task for an id without a Company row has returned
C12_MissingCompanyReturned ==
    \E r \in Runs : phase[r] = "done" /\ company_id[r] = NoCompany

\* C13: the three phases run in sequence: a fetch unit exists only when
\* discovery has committed its rows and returned, and its queue is made of
\* the mapping discovery returned; the completion provider is called only
\* when every unit has ended and the ScrapeLog batch is committed, and the
\* agent was handed the list scrape_discovered_urls returned.
C13_PhasesInSequence ==
    \A r \in Runs :
        /\ spc[r] # <<>> =>
            /\ \A q \in Queries : dpc[r][q] = "done"
            /\ \A u \in MappingUrls(r) : LinkExists(u)
            /\ \A q \in Queries :
                    Len(SelectSeq(search_results, LAMBDA row : row.query = q)) =
                        Len(IF provider[r][q] \in Pages
                            THEN duckduckgo_search(provider[r][q], companies[company_id[r]])
                            ELSE <<>>)
            /\ {urls_to_scrape[r][k].url : k \in Units(r)} = MappingUrls(r)
        /\ calls[r] > 0 =>
            /\ \A k \in Units(r) : spc[r][k] = "done"
            /\ Len(LogsOf(r)) = Len(logs_to_add[r])
            /\ Len(logs_to_add[r]) = Len(urls_to_scrape[r])
            /\ scraped_pages[r] = scraped_content[r]
            /\ content[r] = ContentBlock(scraped_content[r])

\* the provider has been called for a run whose discovery found five urls
\* and whose scrape returned pages
C13_ExtractionAfterScrape ==
    \E r \in Runs :
        /\ calls[r] = 1
        /\ Len(scrape_logs) = 5
        /\ Len(company_links) = 5
        /\ Len(scraped_pages[r]) >= 4

SnapshotsOf(r) == RowsFor(aum_snapshots, r)
UsageOf(r) == RowsFor(usage, r)

\* the provider has answered run r with a text
ProviderAnswered(r) == response[r] \notin {"none", "raise"}
\* extract_aum has ended for run r, by returning or by raising
ExtractionEnded(r) == calls[r] > 0 /\ phase[r] \in {"done", "raised"}

Sentinel == <<"N", "A", "O", "_", "D", "I", "S", "P", "O", "N", "I", "V", "E", "L">>
\* the sentinel occurs in the text, its letters in either case
HasSentinel(text) ==
    \E i \in 1..Len(text) :
        /\ i + Len(Sentinel) - 1 <= Len(text)
        /\ Lower(SubSeq(text, i, i + Len(Sentinel) - 1)) = Lower(Sentinel)

\* the text the provider answered run r with, and its lines
ResponseText(r) == Strip(Chars(Response(response[r]).content))
ResponseLines(r) == SplitLines(ResponseText(r))
\* a response of three lines without the sentinel
ThreeLines(r) ==
    ProviderAnswered(r) /\ ~HasSentinel(ResponseText(r)) /\ Len(ResponseLines(r)) = 3

\* C22: when the provider call raises, extract_aum ends by returning, no
\* AUMSnapshot and no usage row is written for the company, and the
\* provider has been called once.
C22_ProviderFailureIsTerminal ==
    \A r \in Runs :
        response[r] = "raise" =>
            /\ phase[r] \in {"extracting", "done"}
            /\ SnapshotsOf(r) = <<>>
            /\ UsageOf(r) = <<>>
            /\ calls[r] = 1

\* the provider raised and extract_aum has returned
C22_ProviderRaised ==
    \E r \in Runs : response[r] = "raise" /\ phase[r] = "done" /\ calls[r] = 1

\* C23: once the provider has answered, one usage row (the company,
\* "aum_extraction", the total the provider reported) is in the table
\* before the text is parsed, and it is the company's only usage row
\* whatever the parse does: sentinel, value, no value or malformed text.
C23_UsageCommittedBeforeParse ==
    \A r \in Runs :
        (ProviderAnswered(r) /\ phase[r] \in {"parsing", "done", "raised"}) =>
            UsageOf(r) =
                <<[table |-> "usage", company_id |-> company_id[r],
                   operation_type |-> "aum_extraction",
                   tokens_used |-> Response(response[r]).total_tokens]>>

\* the usage of a response that could not be unpacked is in the table
C23_UsageOfMalformedResponse ==
    \E r \in Runs :
        /\ response[r] = "one_line"
        /\ phase[r] = "raised"
        /\ Len(usage) = 1 /\ usage[1].tokens_used = 90

\* C24: a response that holds the sentinel, anywhere and in any letter
\* case, leaves exactly one AUMSnapshot whose raw value is the sentinel and
\* whose unit, standardized value and source url are null; no value is
\* parsed out of it.
C24_SentinelSnapshot ==
    \A r \in Runs :
        (ProviderAnswered(r) /\ HasSentinel(ResponseText(r))) =>
            /\ phase[r] = "parsing" => SnapshotsOf(r) = <<>>
            /\ phase[r] # "raised"
            /\ phase[r] = "done" =>
                SnapshotsOf(r) =
                    <<[table |-> "aum_snapshots", company_id |-> company_id[r],
                       aum_value |-> Sentinel, aum_unit |-> <<>>,
                       standardized_value |-> <<>>, source_url |-> <<>>]>>

\* the sentinel came in mixed case on the second of three lines
C24_SentinelInMixedCase ==
    \E r \in Runs :
        /\ response[r] = "mixed_case"
        /\ phase[r] = "done"
        /\ Len(aum_snapshots) = 1

\* C25: a three-line response without the sentinel whose first line the
\* normalizer turns into a number, zero included, leaves exactly one
\* AUMSnapshot with the raw value and the number cast to integer.
C25_SnapshotForEveryNumber ==
    \A r \in Runs :
        (ThreeLines(r) /\ ExtractionEnded(r)
            /\ normalize_aum_value(ResponseLines(r)[1]) # <<>>) =>
                /\ Len(SnapshotsOf(r)) = 1
                /\ SnapshotsOf(r)[1].aum_value = ResponseLines(r)[1]
                /\ SnapshotsOf(r)[1].standardized_value =
                        <<int(normalize_aum_value(ResponseLines(r)[1])[1])>>

\* the label of the source line and the line without it
Label == <<"F", "o", "n", "t", "e", ":">>
WithoutLabel(line) ==
    IF IsPrefix(Label, line) THEN LStrip(SubSeq(line, Len(Label) + 1, Len(line))) ELSE line

\* C26: the source_url of a snapshot is the third line of the response
\* without its leading label and with nothing else removed.
C26_LabelRemovedExactly ==
    \A r \in Runs :
        (ThreeLines(r) /\ ExtractionEnded(r) /\ SnapshotsOf(r) # <<>>) =>
            SnapshotsOf(r)[1].source_url = <<WithoutLabel(ResponseLines(r)[3])>>

CurrencySymbols == {<<"R", "$">>, <<"U", "S", "$">>, <<"euro">>, <<"$">>}

\* C27: the unit of a snapshot with a value is a currency symbol that
\* occurs in the raw value, and "USD" when none occurs in it.
C27_UnitIsSymbol ==
    \A r \in Runs :
        (ThreeLines(r) /\ ExtractionEnded(r) /\ SnapshotsOf(r) # <<>>) =>
            LET raw_value == SnapshotsOf(r)[1].aum_value
                unit == SnapshotsOf(r)[1].aum_unit
                found == { sym \in CurrencySymbols : Contains(raw_value, sym) }
            IN  IF found = {} THEN unit = <<<<"U", "S", "D">>>>
                ELSE unit # <<>> /\ unit[1] \in found

\* C28: when the normalizer returns None for the first line of a response
\* without the sentinel, extract_aum returns and writes no AUMSnapshot.
C28_NothingForUnparseable ==
    \A r \in Runs :
        (ThreeLines(r) /\ calls[r] > 0
            /\ normalize_aum_value(ResponseLines(r)[1]) = <<>>) =>
                /\ SnapshotsOf(r) = <<>>
                /\ phase[r] \in {"extracting", "parsing", "done"}

\* extract_aum has returned from a response it could not normalize
C28_UnparseableReturned ==
    \E r \in Runs :
        /\ response[r] = "invalid"
        /\ phase[r] = "done"
        /\ aum_snapshots = <<>>
        /\ Len(usage) = 1

\* C29: in every AUMSnapshot the agent has written, standardized_value is
\* null exactly when the raw value does not normalize or is the sentinel.
C29_NullIffNoValue ==
    \A k \in 1..Len(aum_snapshots) :
        LET row == aum_snapshots[k]
        IN  row.standardized_value = <<>> <=>
                \/ normalize_aum_value(row.aum_value) = <<>>
                \/ row.aum_value = Sentinel

\* a snapshot with a value and its integer is in the table
C29_ValueSnapshot ==
    \E k \in 1..Len(aum_snapshots) :
        /\ aum_snapshots[k].aum_value = Chars("€ 123.456,78")
        /\ aum_snapshots[k].standardized_value = <<[m |-> 123456, e |-> 0]>>

\* the session() blocks that were entered and have been left
Left(r) == scope[r].pc = "exited" /\ scope[r].block # "none"

\* C30 as stated: a block that was left has closed its session exactly
\* once; when the block raised, rollback was called once, before the close,
\* and the block's exception reached the caller; when it returned, rollback
\* was not called.
C30_RollbackOnEveryRaise ==
    \A r \in Runs :
        Left(r) =>
            IF scope[r].block = "returns"
            THEN scope[r].called = <<"close">> /\ scope[r].raised = <<>>
            ELSE scope[r].called = <<"rollback", "close">>
                    /\ scope[r].raised = <<scope[r].block>>

\* C30: a block that was left has closed its session exactly once, as the
\* last call on it; when the block raised a subclass of Exception, rollback
\* was called once before the close; when it returned or raised another
\* BaseException, rollback was not called; what the block raised is what the
\* caller gets.  Before the block is left the session is never closed twice.
C30_SessionScope ==
    \A r \in Runs :
        /\ Len(SelectSeq(scope[r].called, LAMBDA c : c = "close")) <= 1
        /\ Len(SelectSeq(scope[r].called, LAMBDA c : c = "rollback")) <= 1
        /\ Left(r) =>
            /\ scope[r].called =
                    IF scope[r].block \in Exceptions THEN <<"rollback", "close">>
                    ELSE <<"close">>
            /\ scope[r].raised =
                    IF scope[r].block = "returns" THEN <<>> ELSE <<scope[r].block>>

\* a block raised SQLAlchemyError and was left after rollback and close
\* while the block of another task was still open
C30_RolledBackAndClosed ==
    \E r, o \in Runs :
        /\ Left(r)
        /\ scope[r].block = "SQLAlchemyError"
        /\ scope[r].called = <<"rollback", "close">>
        /\ scope[r].raised = <<"SQLAlchemyError">>
        /\ scope[o].pc = "block"

\* the manager is unset: engine and sessionmaker are both None
Unset == engine = "none" /\ sessionmaker = "none"

\* a call made on an unset manager raises and hands nothing out
RefusedWhenUnset(state, r) ==
    (state[r].pc = "idle" /\ state'[r].pc # "idle") =>
        /\ state'[r].pc = "exited"
        /\ state'[r].raised = <<NotInitialized>>
        /\ state'[r].called = <<>>

\* C31: a close() that found the manager initialized has called dispose
\* exactly once and leaves engine and sessionmaker unset together; on an
\* unset manager every call of close(), connect() and session() raises
\* "DatabaseSessionManager is not initialized" and opens no connection and
\* no session, and the manager stays unset.
C31_Lifecycle ==
    /\ [](\A r \in Runs :
            /\ closer[r].pc = "disposing" => closer[r].disposed = 1
            /\ (closer[r].pc = "exited" /\ closer[r].raised = <<>>) =>
                    closer[r].disposed = 1 /\ Unset
            /\ closer[r].raised # <<>> => closer[r].disposed = 0)
    /\ [](engine = "none" <=> sessionmaker = "none")
    /\ [][Unset =>
            /\ Unset'
            /\ \A r \in Runs :
                /\ RefusedWhenUnset(scope, r)
                /\ RefusedWhenUnset(conn, r)
                /\ (closer[r].pc = "idle" /\ closer'[r].pc # "idle") =>
                        /\ closer'[r].pc = "exited"
                        /\ closer'[r].raised = <<NotInitialized>>
                        /\ closer'[r].disposed = 0]_vars

\* after a close() that disposed the engine, a second close(), a connect()
\* and a session() have all been refused
C31_RefusedAfterClose ==
    /\ closer[1].pc = "exited" /\ closer[1].disposed = 1
    /\ closer[2].raised = <<NotInitialized>>
    /\ scope[1].raised = <<NotInitialized>> /\ scope[1].called = <<>>
    /\ conn[1].raised = <<NotInitialized>> /\ conn[1].called = <<>>

\* no request is between the SELECT of a row and the dispatch of its task
Quiet == \A r \in Runs : upload[r].pc \in {"idle", "next", "returned", "raised"}

\* C32: after any uploads there is at most one Company per name; every
\* Company the uploads created has exactly one task, dispatched by the
\* upload that created it, and nothing else has one; the count in each
\* response is the number of tasks that upload dispatched.
C32_OneCompanyPerName ==
    /\ \A i, j \in 1..Len(company_rows) : company_rows[i] = company_rows[j] => i = j
    /\ \A r \in Runs : upload[r].pc # "raised"
    /\ Quiet =>
        /\ Len(dispatched) = Len(company_rows)
        /\ \A i \in 1..Len(company_rows) : \E k \in 1..Len(dispatched) : dispatched[k] = i
    /\ \A r \in Runs :
        upload[r].pc = "returned" =>
            upload[r].response = <<Len(upload[r].sent)>>

\* what holds of the dispatches in every interleaving: every inserted row
\* gets exactly one task, from the request that inserted it, and each
\* response counts the tasks of its request
C32_OneTaskPerInsert ==
    /\ Quiet =>
        /\ Len(dispatched) = Len(company_rows)
        /\ \A i \in 1..Len(company_rows) : \E k \in 1..Len(dispatched) : dispatched[k] = i
    /\ \A r \in Runs :
        upload[r].pc = "returned" =>
            upload[r].response = <<Len(upload[r].sent)>>

\* C33: in the list scrape_discovered_urls builds and returns, and so in
\* the content block of the agent, the content of a category of higher
\* priority comes before the content of a category of lower priority,
\* however the completions of the fetch units interleave.
C33_ResultByPriority ==
    \A r \in Runs :
        /\ \A i, j \in 1..Len(scraped_content[r]) :
            i < j => PriorityRank(scraped_content[r][i].category)
                        <= PriorityRank(scraped_content[r][j].category)
        /\ \A i, j \in 1..Len(content[r]) :
            i < j =>
                \A a, b \in 1..Len(scraped_pages[r]) :
                    (scraped_pages[r][a].url = content[r][i].source
                        /\ scraped_pages[r][b].url = content[r][j].source) =>
                            PriorityRank(scraped_pages[r][a].category)
                                <= PriorityRank(scraped_pages[r][b].category)

\* the raw value in lower case without currency symbols and white space
Cleaned(raw) == Strip(RemoveCoinSymbols(Lower(raw)))

\* the decimal convention, character by character: with a point and a
\* comma in the text every point is dropped as a thousands separator and
\* the comma is the decimal point; otherwise a comma is the decimal point
\* and a point stays one
PointsAndCommas(text) ==
    LET both == (\E i \in 1..Len(text) : text[i] = ".") /\ (\E i \in 1..Len(text) : text[i] = ",")
        kept == IF both THEN SelectSeq(text, LAMBDA c : c # ".") ELSE text
    IN  [i \in 1..Len(kept) |-> IF kept[i] = "," THEN "." ELSE kept[i]]

\* the multiplier of a token as a power of ten; an unknown token has 1
ExponentOf(token) ==
    LET found == {kv \in MULTIPLIERS : kv[1] = token}
    IN  IF found = {} THEN 0 ELSE (CHOOSE kv \in found : TRUE)[2]

\* number times multiplier, or null when float() cannot read the number
Times(number_text, token) ==
    IF float(number_text) = <<>> THEN <<>>
    ELSE <<Decimal(float(number_text)[1].m, float(number_text)[1].e + ExponentOf(token))>>

\* C34: the value normalize_aum_value returns for a string that is not
\* purely alphabetic is the value of its cleaned text read under the decimal
\* convention: with both "." and "," every "." is a thousands separator and
\* "," the decimal point, otherwise "," is the decimal point and "." is kept.
C34_DecimalConvention ==
    (ret # <<>> /\ ~str_isalpha(Lower(arg))) =>
        LET text == PointsAndCommas(Cleaned(arg))
        IN  ret[1] = Times(SelectSeq(text, LAMBDA c : str_isdigit(c) \/ c = "."),
                           SelectSeq(text, LAMBDA c : ~(str_isdigit(c) \/ c = ".")))

\* a text with a point and a comma: the point was dropped and the comma
\* read as the decimal point, so ".,1" is 0.1
C34_PointAndComma ==
    /\ arg = <<".", ",", "1">>
    /\ ret = <<(<<[m |-> 1, e |-> 0 - 1]>>)>>

\* the leading run of digits and points of a text
RECURSIVE LeadingRun(_)
LeadingRun(text) ==
    IF text # <<>> /\ (str_isdigit(Head(text)) \/ Head(text) = ".")
    THEN <<Head(text)>> \o LeadingRun(Tail(text))
    ELSE <<>>

\* C35: the result of normalize_aum_value is the leading run of digits and
\* decimal point times the multiplier of the token that follows it, 1 for
\* an unknown or absent token; no character after the first character that
\* is not numeric is part of the number.
C35_LeadingRunTimesMultiplier ==
    (ret # <<>> /\ ~str_isalpha(Lower(arg))) =>
        LET text == DecimalConvention(Cleaned(arg))
            number_text == LeadingRun(text)
            token == SubSeq(text, Len(number_text) + 1, Len(text))
        IN  ret[1] = Times(number_text, token)

\* what holds of the multiplier: the result is the digits and points of
\* the whole text times the multiplier of its other characters taken
\* together, 1 when they are no key of the table
C35_AllDigitsTimesMultiplier ==
    (ret # <<>> /\ ~str_isalpha(Lower(arg))) =>
        LET text == DecimalConvention(Cleaned(arg))
        IN  ret[1] = Times(SelectSeq(text, LAMBDA c : str_isdigit(c) \/ c = "."),
                           SelectSeq(text, LAMBDA c : ~(str_isdigit(c) \/ c = ".")))

SocialCategories == {"linkedin", "instagram", "twitter", "x", "facebook"}
ScriptRuns(ops) == {i \in 1..Len(ops) : ops[i] = "execute_script"}
\* every scroll comes after the navigation and before the markup is read
ScrollsInPlace(ops) ==
    \A i \in ScriptRuns(ops) :
        /\ \E g \in 1..(i - 1) : ops[g] = "go_to"
        /\ \A p \in 1..Len(ops) : ops[p] = "page_source" => i < p

\* C36 as stated: the scroll script runs only for a social-platform
\* category and never for reports, corporate and news; when it runs, it
\* runs exactly 3 times, after the navigation and before the markup is read.
C36_ScrollsThreeTimes ==
    ret # <<>> =>
        LET ops == ret[1].operations
        IN  /\ ScriptRuns(ops) # {} => arg[1].category \in SocialCategories
            /\ arg[1].category \in {"reports", "corporate", "news"} => ScriptRuns(ops) = {}
            /\ ScriptRuns(ops) # {} =>
                /\ Cardinality(ScriptRuns(ops)) = 3
                /\ ScrollsInPlace(ops)
                /\ ops[Len(ops)] = "page_source"

\* C36: the scroll script runs only for a social-platform category and
\* never for reports, corporate and news; a scrape that scrolls and succeeds
\* has run it exactly 3 times, after the navigation and before the markup
\* is read; a scroll that raises ends the scrape at once with a FAILED log,
\* so a scrape that scrolls and fails has run it 1 to 3 times and has not
\* read the markup.
C36_ScrollCycles ==
    ret # <<>> =>
        LET ops == ret[1].operations
        IN  /\ ScriptRuns(ops) # {} => arg[1].category \in SocialCategories
            /\ arg[1].category \in {"reports", "corporate", "news"} => ScriptRuns(ops) = {}
            /\ ScrollsInPlace(ops)
            /\ Cardinality(ScriptRuns(ops)) <= 3
            /\ (ScriptRuns(ops) # {} /\ ret[1].log_entry.status = "SUCCESS") =>
                    Cardinality(ScriptRuns(ops)) = 3 /\ ops[Len(ops)] = "page_source"
            /\ (ScriptRuns(ops) # {} /\ ret[1].log_entry.status = "FAILED") =>
                    /\ ops[Len(ops)] = "execute_script"
                    /\ ret[1].content = <<>>

\* a linkedin page was scraped with three scrolls between the navigation
\* and the reading of the markup
C36_ThreeScrolls ==
    /\ ret # <<>>
    /\ arg[1].category = "linkedin"
    /\ ret[1].operations =
            <<"enable_network_events", "go_to", "execute_script", "execute_script",
              "execute_script", "page_source">>
    /\ ret[1].log_entry.status = "SUCCESS"

\* the domain of a url: its characters before the first slash
RECURSIVE DomainOf(_)
DomainOf(cs) ==
    IF cs = <<>> \/ Head(cs) = "/" THEN <<>> ELSE <<Head(cs)>> \o DomainOf(Tail(cs))

\* the domain is the given one or a subdomain of it, in any spelling of capitals
IsDomain(url, domain) ==
    LET d == [i \in 1..Len(DomainOf(Chars(url))) |-> LowerChar(DomainOf(Chars(url))[i])]
        n == Len(d)
        m == Len(domain)
    IN  \/ d = domain
        \/ n > m /\ SubSeq(d, n - m + 1, n) = domain /\ d[n - m] = "."

PlatformDomains(category) ==
    CASE category = "linkedin" -> {kw_linkedin}
      [] category = "instagram" -> {kw_instagram}
      [] category = "twitter" -> {kw_twitter, kw_x}
      [] category = "facebook" -> {kw_facebook}

\* C37: categorize_search_results puts a url into the twitter bucket only
\* if the domain of the url is twitter.com or x.com, and into the linkedin,
\* instagram and facebook buckets only if the domain is that platform's; a
\* url of any other domain is in no social bucket.
C37_SocialOnlyByDomain ==
    ret # <<>> =>
        \A c \in {"linkedin", "instagram", "twitter", "facebook"} :
            \A u \in ret[1][c] : \E d \in PlatformDomains(c) : IsDomain(u, d)

\* the units of run r that have started the fetch of a url
Fetches(r, u) ==
    {k \in Units(r) : urls_to_scrape[r][k].url = u /\ spc[r][k] \notin {"queued", "opening"}}

\* the log entries run r holds for a url
LogsFor(r, u) == {i \in 1..Len(logs_to_add[r]) : logs_to_add[r][i].url = u}

\* C38: within one scrape run each distinct url is fetched at most once and
\* gets at most one ScrapeLog row, for every mapping discovery can return,
\* one in which a url belongs to two category sets included.
C38_OneFetchPerUrl ==
    \A r \in Runs : \A u \in Urls :
        /\ Cardinality(Fetches(r, u)) <= 1
        /\ Cardinality(LogsFor(r, u)) <= 1

\* extract_aum has been entered in run r
ExtractionEntered(r) == phase[r] \in {"extracting", "parsing", "done", "raised", "failed"}

\* C39: every call of extract_aum invokes the completion provider exactly
\* once: not before the call is entered, once when it is, and never again
\* until the call has ended, for every list of scraped pages, the empty
\* list and a list without relevant content included.
C39_ProviderCalledOnce ==
    \A r \in Runs : calls[r] = IF ExtractionEntered(r) THEN 1 ELSE 0

\* the provider has answered a prompt with an empty content block, made
\* for a list of one page that has no paragraph about the assets
C39_EmptyContentBlockSent ==
    \E r \in Runs :
        /\ phase[r] = "parsing"
        /\ Len(scraped_pages[r]) = 1
        /\ content[r] = <<>>
        /\ calls[r] = 1

\* the longest fetch queue of a run
MaxQueue == Cardinality(Urls)

\* unit q of the discovery of run 1 has acquired the limiter, run and
\* released it
QueryDone(q) == dpc[1][q] = "done"

\* unit k of the scrape of run 1 has acquired the limiter, run and released it
FetchDone(k) == k \in DOMAIN spc[1] /\ spc[1][k] = "done"

\* C40: when every browser operation and pacing delay returns or raises,
\* every discovery query and every queued fetch unit eventually acquires its
\* limiter, runs and releases it; the join of each phase eventually
\* completes with the 4 permits of its limiter free; and process_company
\* eventually terminates.
C40_UnitsRunAndJoin ==
    /\ \A q \in Queries : (phase[1] = "discovery") ~> QueryDone(q)
    /\ \A k \in 1..MaxQueue :
            (phase[1] = "scraping" /\ k \in DOMAIN spc[1]) ~> FetchDone(k)
    /\ (phase[1] = "discovery") ~>
            (phase[1] = "linking" /\ dsem[1] = DiscoverySemaphore)
    /\ (phase[1] = "scraping") ~>
            (phase[1] = "logging" /\ ssem[1] = ScrapeSemaphore)
    /\ (phase[1] # "idle") ~> (phase[1] \in {"done", "failed"})

====
